---- MODULE Spec2Model ----
(***************************************************************************)
(* Model of aw_watcher_procrastination: the rule-object categorizer        *)
(* (activity_categorizer.py), the packaged list-based categorizer          *)
(* (src/aw_watcher_procrastination/activity_categorizer.py) and the        *)
(* packaged event processor and poll cycle (event_processor.py, main.py).  *)
(*                                                                         *)
(* Strings are sequences of one-character strings so that str.lower() and  *)
(* the substring test `pattern in text` are computed, not assumed.         *)
(***************************************************************************)
EXTENDS Integers, Sequences, FiniteSets, TLC

VARIABLES
    rules,      \* activity_categorizer.py: self.rules, a dict pattern -> ActivityRule, in insertion order
    query,      \* arguments of the last categorize_activity call on the rule-object categorizer
    answer,     \* its return value ("-" before the first call)
    rulesFile,  \* activity_rules.json of the rule-object categorizer: whether it exists and parses, and its document
    loadReturn, \* the load_rules call that has just ended: the rules it found and whether an exception left it
    pkgRules,   \* packaged categorizer: self.rules, {category: {rule_type: [patterns]}}
    pkgQuery,   \* arguments of the last packaged categorize_activity call
    pkgAnswer,  \* its return value ("-" before the first call)
    pkgCall,    \* the packaged remove_rule call that has just returned: its arguments and the state it found
    settingsFile,   \* the settings JSON file: whether it exists and parses, and its "activity_rules"
    defaultRules,   \* settings.py: DEFAULT_SETTINGS["activity_rules"], a module-level mutable dict
    aliased,        \* the <<category, rule_type>> lists of self.rules that are the list objects of DEFAULT_SETTINGS
    buckets,        \* the tracking service: bucket id -> the events get_events returns for it
    pc,             \* poll cycle: "idle" between timer ticks, "done" when check_procrastination has ended
    failed,         \* the buckets whose get_events call raised in the last poll cycle
    timeline,       \* what get_recent_activities returned in the last poll cycle
    outcome,        \* "ok": check_procrastination returned; "raised": an exception left it; "-": no cycle yet
    pcts,           \* the tuple calculate_procrastination_percentage returned, as exact fractions
    alertRequested, \* whether the cycle called notification_window.show_alert
    clock,          \* datetime.now(), in minutes since the application started
    window,         \* NotificationWindow: _last_shown, isVisible(), _break_end_time, _break_duration_minutes
    alertCall,      \* the show_alert call that has just returned: its time and the window it found
    settingsDoc,    \* settings.json as a document: whether it exists, and the value at every key path
    settingsCall    \* the settings load that has just returned: what it found, returned and reported

legacyVars == <<rules, query, answer, rulesFile, loadReturn>>
pkgCatVars == <<pkgRules, pkgQuery, pkgAnswer, pkgCall, settingsFile, defaultRules, aliased>>
alertVars == <<clock, window, alertCall>>
settingsVars == <<settingsDoc, settingsCall>>
pollVars == <<buckets, pc, failed, timeline, outcome, pcts, alertRequested, clock, window, alertCall>>
vars == <<rules, query, answer, rulesFile, loadReturn,
          pkgRules, pkgQuery, pkgAnswer, pkgCall, settingsFile, defaultRules, aliased,
          buckets, pc, failed, timeline, outcome, pcts, alertRequested,
          clock, window, alertCall, settingsDoc, settingsCall>>

(***************************************************************************)
(* Strings                                                                 *)
(***************************************************************************)

\* Python None passed for an Optional[str] argument
NoneStr == <<"<None>">>

\* str.lower() on one character of the model's alphabet
LowerChar(c) ==
    CASE c = "A" -> "a"
      [] c = "B" -> "b"
      [] c = "C" -> "c"
      [] OTHER -> c

\* str.lower()
lower(s) == [i \in 1..Len(s) |-> LowerChar(s[i])]

\* Python `pat in text` for strings: substring containment ("" is in every string)
Contains(text, pat) ==
    \E i \in 0..(Len(text) - Len(pat)) : SubSeq(text, i + 1, i + Len(pat)) = pat

\* Python truthiness of an Optional[str]
Truthy(s) == s # NoneStr /\ s # <<>>

\* Python `s or ""`
OrEmpty(s) == IF Truthy(s) THEN s ELSE <<>>

(***************************************************************************)
(* Rule-object categorizer: activity_categorizer.py                        *)
(***************************************************************************)

PROCRASTINATING == "Procrastinating"
UNCLEAR == "Unclear"
PRODUCTIVE == "Productive"
ActivityCategory == {PROCRASTINATING, UNCLEAR, PRODUCTIVE}

APP == "app"
URL == "url"
TITLE == "title"
RuleType == {APP, URL, TITLE}

\* index of the dict entry with this key, 0 when the key is absent
KeyIndex(rs, key) ==
    IF \E i \in 1..Len(rs) : rs[i].pattern = key
    THEN CHOOSE i \in 1..Len(rs) : rs[i].pattern = key
    ELSE 0

\* add_rule: self.rules[pattern.lower()] = ActivityRule(pattern.lower(), category, rule_type)
\* (assigning to an existing dict key keeps its position and replaces its value)
add_rule(rs, pattern, category, rule_type) ==
    LET r == [pattern |-> lower(pattern), category |-> category, rule_type |-> rule_type]
        k == KeyIndex(rs, lower(pattern))
    IN  IF k = 0 THEN Append(rs, r) ELSE [rs EXCEPT ![k] = r]

\* the loop of _find_best_match from rule i on; best = 0 stands for best_match = None
RECURSIVE FindBestLoop(_, _, _, _, _, _)
FindBestLoop(rs, text, rule_type, i, best, best_length) ==
    IF i > Len(rs) THEN best
    ELSE IF rs[i].rule_type # rule_type
         THEN FindBestLoop(rs, text, rule_type, i + 1, best, best_length)
         ELSE IF Contains(text, rs[i].pattern) /\ Len(rs[i].pattern) > best_length
              THEN FindBestLoop(rs, text, rule_type, i + 1, i, Len(rs[i].pattern))
              ELSE FindBestLoop(rs, text, rule_type, i + 1, best, best_length)

\* a plausible slip: the first matching rule wins, whatever its length
FirstMatchWins(rs, text, rule_type) ==
    LET t == lower(text)
        M == {i \in 1..Len(rs) : rs[i].rule_type = rule_type /\ rs[i].pattern # <<>>
                                 /\ Contains(t, rs[i].pattern)}
    IN  IF M = {} THEN 0 ELSE CHOOSE i \in M : \A j \in M : i <= j

\* a plausible slip: `>=` instead of `>` in the length comparison
RECURSIVE FindBestLoopGeq(_, _, _, _, _, _)
FindBestLoopGeq(rs, text, rule_type, i, best, best_length) ==
    IF i > Len(rs) THEN best
    ELSE IF rs[i].rule_type # rule_type
         THEN FindBestLoopGeq(rs, text, rule_type, i + 1, best, best_length)
         ELSE IF Contains(text, rs[i].pattern) /\ Len(rs[i].pattern) >= best_length
              THEN FindBestLoopGeq(rs, text, rule_type, i + 1, i, Len(rs[i].pattern))
              ELSE FindBestLoopGeq(rs, text, rule_type, i + 1, best, best_length)

FindBestGeq(rs, text, rule_type) == FindBestLoopGeq(rs, lower(text), rule_type, 1, 0, 0)

\* _find_best_match: index of the longest matching rule of the type, 0 for None
find_best_match(rs, text, rule_type) == FindBestLoop(rs, lower(text), rule_type, 1, 0, 0)

\* a plausible slip: the Title dimension is consulted before the URL dimension
categorize_title_first(rs, app_name, url, title) ==
    LET a == OrEmpty(app_name)
        u == OrEmpty(url)
        t == OrEmpty(title)
        url_rule   == find_best_match(rs, u, URL)
        title_rule == find_best_match(rs, t, TITLE)
        app_rule   == find_best_match(rs, a, APP)
    IN  IF t # <<>> /\ title_rule # 0 THEN rs[title_rule].category
        ELSE IF u # <<>> /\ url_rule # 0 THEN rs[url_rule].category
        ELSE IF app_rule # 0 THEN rs[app_rule].category
        ELSE UNCLEAR

\* categorize_activity of the rule-object categorizer
categorize_activity(rs, app_name, url, title) ==
    LET a == OrEmpty(app_name)
        u == OrEmpty(url)
        t == OrEmpty(title)
        url_rule   == find_best_match(rs, u, URL)
        title_rule == find_best_match(rs, t, TITLE)
        app_rule   == find_best_match(rs, a, APP)
    IN  IF u # <<>> /\ url_rule # 0 THEN rs[url_rule].category
        ELSE IF t # <<>> /\ title_rule # 0 THEN rs[title_rule].category
        ELSE IF app_rule # 0 THEN rs[app_rule].category
        ELSE UNCLEAR

(***************************************************************************)
(* Inputs of the rule-object categorizer                                   *)
(***************************************************************************)

\* most rules the dict holds in the model
MaxRules == 2

\* patterns handed to add_rule (any letter case, the empty pattern included)
PatternInputs == { <<>>, <<"b">>, <<"A", "b">>, <<"b", "c">> }

\* texts handed to categorize_activity
UrlInputs   == { NoneStr, <<>>, <<"a", "B", "c">>, <<"c">> }
TitleInputs == { NoneStr, <<>>, <<"A", "b">> }
AppInputs   == { NoneStr, <<>>, <<"B", "C">> }

NoQuery == [app |-> NoneStr, url |-> NoneStr, title |-> NoneStr]

\* no rules file on disk
MissingFile == [status |-> "missing"]

\* no load_rules call has just ended
NoLoad == [done |-> FALSE, raised |-> FALSE, before |-> <<>>]

\* no settings.json yet
MissingDoc == [status |-> "missing", doc |-> << >>]

\* no settings load has just returned
NoSettingsCall == [op |-> "-"]

InitSettings ==
    /\ settingsDoc = MissingDoc
    /\ settingsCall = NoSettingsCall

\* ActivityCategorizer() with no rules file: load_rules returns with self.rules = {}
InitLegacy ==
    /\ rules = <<>>
    /\ query = NoQuery
    /\ answer = "-"
    /\ rulesFile = MissingFile
    /\ loadReturn = NoLoad

\* no remove_rule call has just returned
NoCall == [op |-> "-"]

\* the packaged categorizer's rule dict with every list empty
EmptyPkgRules ==
    [c \in {"procrastination", "productive"} |->
        [t \in {"apps", "urls", "titles"} |-> <<>>]]

CategoryKeys == {"procrastination", "productive"}
RuleTypeKeys == {"apps", "urls", "titles"}

\* ActivityCategorizer(rules_file) on a path with no file: Settings.__init__
\* loads once, which takes DEFAULT_SETTINGS.copy() and saves it; load_rules
\* then loads again, from the file just written, so self.rules is the parsed
\* "activity_rules" dict with empty lists and shares nothing with the defaults
InitPkgCat ==
    /\ pkgRules = EmptyPkgRules
    /\ pkgQuery = NoQuery
    /\ pkgAnswer = "-"
    /\ pkgCall = NoCall
    /\ settingsFile = [status |-> "ok", rules |-> EmptyPkgRules]
    /\ defaultRules = EmptyPkgRules
    /\ aliased = {}

\* a fraction num/den
Frac(num, den) == [num |-> num, den |-> den]

\* the float 0.0
Zero == Frac(0, 1)

NoPcts == [proc |-> Zero, unclear |-> Zero, prod |-> Zero, active |-> Zero]

\* Python None for an Optional[datetime] or Optional[int]; a value is <<v>>
None == << >>

\* no show_alert call has just returned
NoAlertCall == [done |-> FALSE]

\* NotificationWindow.__init__: never shown, hidden, no break
InitAlert ==
    /\ clock = 0
    /\ window = [last_shown |-> None, visible |-> FALSE,
                 break_end_time |-> None, break_duration_minutes |-> None]
    /\ alertCall = NoAlertCall

\* no bucket, no poll cycle yet
InitPoll ==
    /\ buckets = << >>
    /\ pc = "idle"
    /\ failed = {}
    /\ timeline = << >>
    /\ outcome = "-"
    /\ pcts = NoPcts
    /\ alertRequested = FALSE
    /\ InitAlert

InitRules ==
    /\ InitLegacy
    /\ InitSettings
    /\ InitPkgCat
    /\ InitPoll

AddRule(pattern, category, rule_type) ==
    /\ answer = "-"
    /\ KeyIndex(rules, lower(pattern)) # 0 \/ Len(rules) < MaxRules
    /\ rules' = add_rule(rules, pattern, category, rule_type)
    /\ UNCHANGED <<query, answer, rulesFile, loadReturn, pkgCatVars, pollVars, settingsVars>>

CategorizeActivity(app_name, url, title) ==
    /\ answer = "-"
    /\ query' = [app |-> app_name, url |-> url, title |-> title]
    /\ answer' = categorize_activity(rules, app_name, url, title)
    /\ UNCHANGED <<rules, rulesFile, loadReturn, pkgCatVars, pollVars, settingsVars>>

\* the caller consumes the returned category
ReturnToCaller ==
    /\ answer # "-"
    /\ query' = NoQuery
    /\ answer' = "-"
    /\ UNCHANGED <<rules, rulesFile, loadReturn, pkgCatVars, pollVars, settingsVars>>

NextRules ==
    \/ ReturnToCaller
    \/ \E p \in PatternInputs, c \in ActivityCategory, t \in RuleType : AddRule(p, c, t)
    \/ \E a \in AppInputs, u \in UrlInputs, t \in TitleInputs : CategorizeActivity(a, u, t)

SpecRules == InitRules /\ [][NextRules]_vars

(***************************************************************************)
(* Properties of the rule-object categorizer                               *)
(***************************************************************************)

\* a categorize_activity call has returned and its result is in `answer`
Asked == answer # "-"

\* the stored rules of one dimension whose pattern, of nonzero length, is a
\* case-insensitive substring of the text
Matching(rule_type, text) ==
    {i \in 1..Len(rules) :
        /\ rules[i].rule_type = rule_type
        /\ rules[i].pattern # <<>>
        /\ Contains(lower(OrEmpty(text)), rules[i].pattern)}

Longest(M) == {i \in M : \A j \in M : Len(rules[i].pattern) >= Len(rules[j].pattern)}

Cats(M) == {rules[i].category : i \in M}

\* C1: the category returned by categorize_activity is that of a matching URL
\* rule whenever a URL rule matches the url; that of a matching Title rule only
\* when no URL rule matches; that of a matching App rule only when neither a
\* URL nor a Title rule matches; Unclear when no rule of any dimension matches.
C1_DimensionPriority ==
    Asked =>
        LET U == Matching(URL, query.url)
            T == Matching(TITLE, query.title)
            A == Matching(APP, query.app)
        IN  IF U # {} THEN answer \in Cats(U)
            ELSE IF T # {} THEN answer \in Cats(T)
            ELSE IF A # {} THEN answer \in Cats(A)
            ELSE answer = UNCLEAR

\* a URL rule and a Title rule of different categories both match, and the
\* URL rule decided
C1_Witness ==
    /\ Asked
    /\ Matching(URL, query.url) # {}
    /\ Matching(TITLE, query.title) # {}
    /\ Cats(Matching(URL, query.url)) \cap Cats(Matching(TITLE, query.title)) = {}
    /\ answer \in Cats(Matching(URL, query.url))

\* C2: within the dimension that decides, the returned category is the
\* category of a longest matching pattern of that dimension, whatever the order
\* in which the rules were added.
C2_LongestPatternWins ==
    Asked =>
        LET U == Matching(URL, query.url)
            T == Matching(TITLE, query.title)
            A == Matching(APP, query.app)
        IN  /\ U # {} => answer \in Cats(Longest(U))
            /\ (U = {} /\ T # {}) => answer \in Cats(Longest(T))
            /\ (U = {} /\ T = {} /\ A # {}) => answer \in Cats(Longest(A))

\* two URL rules of different lengths and different categories both match, the
\* shorter one was added first, and the longer one decided
C2_Witness ==
    /\ Asked
    /\ \E i, j \in Matching(URL, query.url) :
          /\ i < j
          /\ Len(rules[i].pattern) < Len(rules[j].pattern)
          /\ rules[i].category # rules[j].category
          /\ answer = rules[j].category

\* C10: categorize_activity returns Unclear whenever app, url and title are all
\* empty or None, whatever rules add_rule has stored (an empty pattern included).
C10_EmptyInputsUnclear ==
    (Asked /\ ~Truthy(query.app) /\ ~Truthy(query.url) /\ ~Truthy(query.title))
        => answer = UNCLEAR

\* all three fields are empty or None while an App rule with the empty pattern
\* and a category other than Unclear is stored
C10_Witness ==
    /\ Asked
    /\ ~Truthy(query.app) /\ ~Truthy(query.url) /\ ~Truthy(query.title)
    /\ \E i \in 1..Len(rules) :
          rules[i].pattern = <<>> /\ rules[i].rule_type = APP /\ rules[i].category # UNCLEAR
    /\ answer = UNCLEAR

\* C11: add_rule changes only the (dimension, category) bucket it names: a
\* rule that is stored stays stored, with its pattern, dimension and category,
\* through every later add_rule call, also one that adds the same pattern for
\* another dimension or another category.
C11_AddRuleFrame ==
    [][\A i \in 1..Len(rules) : \E j \in 1..Len(rules') : rules'[j] = rules[i]]_vars

\* C12: every stored rule has category Productive or Procrastinating, also
\* after add_rule was called with category Unclear.
C12_UnclearNeverStored ==
    \A i \in 1..Len(rules) : rules[i].category \in {PRODUCTIVE, PROCRASTINATING}

(***************************************************************************)
(* Packaged categorizer:                                                   *)
(* src/aw_watcher_procrastination/activity_categorizer.py                  *)
(***************************************************************************)

PkgPRODUCTIVE == "productive"
PkgPROCRASTINATING == "procrastinating"
PkgUNCLEAR == "unclear"
PkgActivityCategory == {PkgPRODUCTIVE, PkgPROCRASTINATING, PkgUNCLEAR}

\* any(rule.lower() in text.lower() for rule in lst)
AnyRuleIn(lst, text) ==
    \E i \in 1..Len(lst) : Contains(lower(text), lower(lst[i]))

\* _matches_rules: some rule of one category matches app, url or title
matches_rules(app, url, title, rs) ==
    \/ Truthy(app) /\ AnyRuleIn(rs["apps"], app)
    \/ Truthy(url) /\ AnyRuleIn(rs["urls"], url)
    \/ Truthy(title) /\ AnyRuleIn(rs["titles"], title)

\* categorize_activity of the packaged categorizer: procrastination rules
\* first, then productive rules
pkg_categorize_activity(rs, app, url, title) ==
    IF matches_rules(app, url, title, rs["procrastination"]) THEN PkgPROCRASTINATING
    ELSE IF matches_rules(app, url, title, rs["productive"]) THEN PkgPRODUCTIVE
    ELSE PkgUNCLEAR

\* category_key = "productive" if category == PRODUCTIVE else "procrastination"
category_key(category) ==
    IF category = PkgPRODUCTIVE THEN "productive" ELSE "procrastination"

\* whether packaged add_rule appends: the rule type is a key of the category's
\* dict and the value is not in its list yet
AddRuleAppends(rs, category, rule_type, value) ==
    /\ rule_type \in DOMAIN rs[category_key(category)]
    /\ \A i \in 1..Len(rs[category_key(category)][rule_type]) :
          rs[category_key(category)][rule_type][i] # value

\* the rule dict after packaged add_rule
pkg_add_rule(rs, category, rule_type, value) ==
    IF AddRuleAppends(rs, category, rule_type, value)
    THEN [rs EXCEPT ![category_key(category)][rule_type] = Append(@, value)]
    ELSE rs

\* number of patterns stored over all lists
RuleCount(rs) ==
    LET n(c) == Len(rs[c]["apps"]) + Len(rs[c]["urls"]) + Len(rs[c]["titles"])
    IN  n("procrastination") + n("productive")

\* most patterns the packaged rule lists hold in the model
MaxPkgRules == 2

\* values handed to the packaged add_rule
PkgPatternInputs == { <<>>, <<"b">>, <<"A", "b">>, <<"a", "b">>, <<"b", "c">> }

InitPkg ==
    /\ InitLegacy
    /\ InitSettings
    /\ InitPkgCat
    /\ InitPoll

\* a plausible slip: add_rule appends in memory and does not call save_rules
PkgAddRuleNoSave(category, rule_type, value) ==
    /\ pkgAnswer = "-"
    /\ RuleCount(pkgRules) < MaxPkgRules
    /\ pkgRules' = pkg_add_rule(pkgRules, category, rule_type, value)
    /\ defaultRules' =
          IF AddRuleAppends(pkgRules, category, rule_type, value)
             /\ <<category_key(category), rule_type>> \in aliased
          THEN [defaultRules EXCEPT ![category_key(category)][rule_type] = Append(@, value)]
          ELSE defaultRules
    /\ UNCHANGED <<settingsFile, pkgQuery, pkgAnswer, pkgCall, aliased, legacyVars, pollVars, settingsVars>>

\* add_rule, with save_rules -> Settings.update("activity_rules", self.rules) -> Settings.save
PkgAddRule(category, rule_type, value) ==
    /\ pkgAnswer = "-"
    /\ RuleCount(pkgRules) < MaxPkgRules
    /\ pkgRules' = pkg_add_rule(pkgRules, category, rule_type, value)
    /\ IF AddRuleAppends(pkgRules, category, rule_type, value)
       THEN /\ defaultRules' =
                  IF <<category_key(category), rule_type>> \in aliased
                  THEN [defaultRules EXCEPT ![category_key(category)][rule_type] = Append(@, value)]
                  ELSE defaultRules
            /\ settingsFile' = [status |-> "ok", rules |-> pkgRules']
       ELSE UNCHANGED <<defaultRules, settingsFile>>
    /\ UNCHANGED <<pkgQuery, pkgAnswer, pkgCall, aliased, legacyVars, pollVars, settingsVars>>

PkgCategorizeActivity(app, url, title) ==
    /\ pkgAnswer = "-"
    /\ pkgQuery' = [app |-> app, url |-> url, title |-> title]
    /\ pkgAnswer' = pkg_categorize_activity(pkgRules, app, url, title)
    /\ UNCHANGED <<pkgRules, pkgCall, settingsFile, defaultRules, aliased, legacyVars, pollVars, settingsVars>>

\* the caller consumes the returned category
PkgReturnToCaller ==
    /\ pkgAnswer # "-"
    /\ pkgQuery' = NoQuery
    /\ pkgAnswer' = "-"
    /\ UNCHANGED <<pkgRules, pkgCall, settingsFile, defaultRules, aliased, legacyVars, pollVars, settingsVars>>

NextPkg ==
    \/ PkgReturnToCaller
    \/ \E c \in PkgActivityCategory, t \in RuleTypeKeys, v \in PkgPatternInputs : PkgAddRule(c, t, v)
    \/ \E a \in AppInputs, u \in UrlInputs, t \in TitleInputs : PkgCategorizeActivity(a, u, t)

SpecPkg == InitPkg /\ [][NextPkg]_vars

(***************************************************************************)
(* Properties of the packaged categorizer                                  *)
(***************************************************************************)

PkgAsked == pkgAnswer # "-"

\* the stored patterns <<category key, index>> of one dimension that have
\* nonzero length and are a case-insensitive substring of the text
DimMatches(rule_type, text) ==
    UNION { { <<c, i>> : i \in { k \in 1..Len(pkgRules[c][rule_type]) :
                                  /\ pkgRules[c][rule_type][k] # <<>>
                                  /\ Contains(lower(OrEmpty(text)), lower(pkgRules[c][rule_type][k])) } }
            : c \in CategoryKeys }

DimLongest(rule_type, M) ==
    {m \in M : \A n \in M :
        Len(pkgRules[m[1]][rule_type][m[2]]) >= Len(pkgRules[n[1]][rule_type][n[2]])}

CategoryOfKey(c) == IF c = "productive" THEN PkgPRODUCTIVE ELSE PkgPROCRASTINATING

\* the categories the specified categorizer may return: URL, then Title, then
\* App; in the deciding dimension a longest matching pattern of both
\* categories combined
SpecifiedCategories(q) ==
    LET U == DimMatches("urls", q.url)
        T == DimMatches("titles", q.title)
        A == DimMatches("apps", q.app)
    IN  IF U # {} THEN {CategoryOfKey(m[1]) : m \in DimLongest("urls", U)}
        ELSE IF T # {} THEN {CategoryOfKey(m[1]) : m \in DimLongest("titles", T)}
        ELSE IF A # {} THEN {CategoryOfKey(m[1]) : m \in DimLongest("apps", A)}
        ELSE {PkgUNCLEAR}

\* C3: the packaged categorize_activity returns the category the specified
\* categorizer returns (URL, then Title, then App; longest matching pattern of
\* the deciding dimension across both categories).
C3_PackagedEqualsSpecified ==
    PkgAsked => pkgAnswer \in SpecifiedCategories(pkgQuery)

\* C13: add_rule stores the pattern lowercased, and no bucket holds two
\* entries for the same pattern, whatever the letter case of the patterns added.
C13_LowercasedNoDuplicates ==
    \A c \in CategoryKeys, t \in RuleTypeKeys :
        LET lst == pkgRules[c][t]
        IN  /\ \A i \in 1..Len(lst) : lst[i] = lower(lst[i])
            /\ \A i, j \in 1..Len(lst) : i # j => lower(lst[i]) # lower(lst[j])

(***************************************************************************)
(* Settings and rule reload:                                               *)
(* src/aw_watcher_procrastination/settings.py, activity_categorizer.py     *)
(***************************************************************************)

\* ActivityCategorizer.load_rules -> Settings.load, Settings.get("activity_rules"):
\* the rules, the aliasing with DEFAULT_SETTINGS and the file after the call.
\* A missing file gives DEFAULT_SETTINGS.copy(), which is saved; an unparsable
\* file gives DEFAULT_SETTINGS.copy(); a parsed file gives its own rules.
load_rules(file, defaults) ==
    IF file.status = "missing"
    THEN [rules |-> defaults, aliased |-> CategoryKeys \X RuleTypeKeys,
          file |-> [status |-> "ok", rules |-> defaults]]
    ELSE IF file.status = "corrupt"
    THEN [rules |-> defaults, aliased |-> CategoryKeys \X RuleTypeKeys, file |-> file]
    ELSE [rules |-> file.rules, aliased |-> {}, file |-> file]

(***************************************************************************)
(* Time. One tick is half a second.                                        *)
(***************************************************************************)

\* time_window = timedelta(minutes=5), in ticks
TimeWindow == 600

\* aw_transform.flood(events) is called without pulsetime: the default of 5 seconds, in ticks
PulseTime == 10

\* the one-second duration below which print_events hides the category, in ticks
MinEventDuration == 2

(***************************************************************************)
(* Event processing: src/aw_watcher_procrastination/event_processor.py     *)
(***************************************************************************)

\* event.data.get(key, "")
DataGet(data, key) == IF key \in DOMAIN data THEN data[key] ELSE <<>>

\* _clean_url: strip "http://" or "https://", then "www."
clean_url(url) ==
    LET u1 == IF Len(url) > 0 /\ url[1] \in {"http://", "https://"} THEN Tail(url) ELSE url
    IN  IF Len(u1) > 0 /\ u1[1] = "www." THEN Tail(u1) ELSE u1

\* bucket_id.replace("aw-watcher-", "")
RECURSIVE RemovePrefixToken(_)
RemovePrefixToken(id) ==
    IF id = <<>> THEN <<>>
    ELSE IF Head(id) = "aw-watcher-" THEN RemovePrefixToken(Tail(id))
    ELSE <<Head(id)>> \o RemovePrefixToken(Tail(id))

\* s.split("_")[0]
RECURSIVE BeforeUnderscore(_)
BeforeUnderscore(id) ==
    IF id = <<>> \/ Head(id) = "_" THEN <<>>
    ELSE <<Head(id)>> \o BeforeUnderscore(Tail(id))

\* bucket_id.replace("aw-watcher-", "").split("_")[0]
bucket_id_short(bucket_id) == BeforeUnderscore(RemovePrefixToken(bucket_id))

\* "vscode" in event.bucket_id_short or "cursor" in event.bucket_id_short
IsIde(short) == Contains(short, <<"vscode">>) \/ Contains(short, <<"cursor">>)

\* DEFAULT_SETTINGS["bucket_ids_to_skip"]
bucket_ids_to_skip == { <<"aw-watcher-", "afk", "_">>, <<"aw-watcher-", "input", "_">> }

\* any(skip_id in bucket_id for skip_id in bucket_ids_to_skip)
Skipped(bucket_id) == \E skip_id \in bucket_ids_to_skip : Contains(bucket_id, skip_id)

\* a plausible slip: the cleaned url is written back into event.data
process_event_cleans_data(rs, event, bucket_id) ==
    LET short == bucket_id_short(bucket_id)
        ide == IsIde(short)
        app == IF ide THEN short ELSE DataGet(event.data, "app")
        title == IF ide THEN DataGet(event.data, "language") ELSE DataGet(event.data, "title")
        url0 == IF ide THEN DataGet(event.data, "file") ELSE DataGet(event.data, "url")
        url == IF url0 # <<>> THEN clean_url(url0) ELSE url0
    IN  [timestamp |-> event.timestamp, duration |-> event.duration,
         data |-> [k \in DOMAIN event.data \cup {"url"} |-> IF k = "url" THEN url ELSE event.data[k]],
         bucket_id_short |-> short, app |-> app, url |-> url, title |-> title,
         category |-> pkg_categorize_activity(rs, app, url, title)]

\* one iteration of the loop of _process_events: the event with the attributes it gains
process_event(rs, event, bucket_id) ==
    LET short == bucket_id_short(bucket_id)
        ide == IsIde(short)
        app == IF ide THEN short ELSE DataGet(event.data, "app")
        title == IF ide THEN DataGet(event.data, "language") ELSE DataGet(event.data, "title")
        url0 == IF ide THEN DataGet(event.data, "file") ELSE DataGet(event.data, "url")
        url == IF url0 # <<>> THEN clean_url(url0) ELSE url0
    IN  [timestamp |-> event.timestamp, duration |-> event.duration, data |-> event.data,
         bucket_id_short |-> short, app |-> app, url |-> url, title |-> title,
         category |-> pkg_categorize_activity(rs, app, url, title)]

\* _process_events
process_events(rs, events, bucket_id) ==
    [i \in 1..Len(events) |-> process_event(rs, events[i], bucket_id)]

EndOf(e) == e.timestamp + e.duration

Min(a, b) == IF a <= b THEN a ELSE b
Max(a, b) == IF a >= b THEN a ELSE b

(***************************************************************************)
(* aw_transform (the ActivityWatch library the event processor calls)      *)
(***************************************************************************)

\* sorted(events, key=lambda e: e.timestamp), a stable sort
RECURSIVE SortByTimestamp(_)
SortByTimestamp(events) ==
    IF events = <<>> THEN <<>>
    ELSE LET n == Len(events)
             front == SortByTimestamp(SubSeq(events, 1, n - 1))
             e == events[n]
             k == Cardinality({i \in 1..Len(front) : front[i].timestamp <= e.timestamp})
         IN  SubSeq(front, 1, k) \o <<e>> \o SubSeq(front, k + 1, Len(front))

\* one step of the loop of flood over zip(events[:-1], events[1:]): the pair
\* (events[i], events[i+1]) is adjusted in place
FloodPair(ev, i) ==
    LET e1 == ev[i]
        e2 == ev[i + 1]
        gap == e2.timestamp - EndOf(e1)
        e2_end == EndOf(e2)
    IN  IF gap = 0 THEN ev
        ELSE IF gap < 0 /\ e1.data = e2.data
        THEN \* overlap, same data: merge into e1, empty e2
             LET start == Min(e1.timestamp, e2.timestamp)
                 end == Max(EndOf(e1), e2_end)
             IN  [ev EXCEPT ![i].timestamp = start, ![i].duration = end - start,
                            ![i + 1].timestamp = end, ![i + 1].duration = 0]
        ELSE IF gap < 0
        THEN \* overlap, differing data: a warning, nothing changes
             ev
        ELSE IF gap <= PulseTime
        THEN IF e1.duration >= e2.duration
             THEN IF e1.data = e2.data
                  THEN [ev EXCEPT ![i].duration = e2_end - e1.timestamp,
                                  ![i + 1].timestamp = e2_end, ![i + 1].duration = 0]
                  ELSE [ev EXCEPT ![i].duration = e2.timestamp - e1.timestamp]
             ELSE IF e1.data = e2.data
                  THEN [ev EXCEPT ![i + 1].timestamp = e1.timestamp,
                                  ![i + 1].duration = e2_end - e1.timestamp,
                                  ![i].duration = 0]
                  ELSE [ev EXCEPT ![i + 1].timestamp = EndOf(e1),
                                  ![i + 1].duration = e2_end - EndOf(e1)]
        ELSE ev

RECURSIVE FloodLoop(_, _)
FloodLoop(ev, i) ==
    IF i >= Len(ev) THEN ev ELSE FloodLoop(FloodPair(ev, i), i + 1)

PositiveDuration(e) == e.duration > 0

\* aw_transform.flood on a list: sort, close the gaps of at most pulsetime,
\* drop the events left with zero duration
flood(events) == SelectSeq(FloodLoop(SortByTimestamp(events), 1), PositiveDuration)

\* timeslot intersection of the periods of two events is not None
Intersects(a, b) ==
    \/ a.timestamp <= b.timestamp /\ EndOf(b) <= EndOf(a)
    \/ a.timestamp <= b.timestamp /\ b.timestamp < EndOf(a)
    \/ a.timestamp < EndOf(b) /\ EndOf(b) <= EndOf(a)
    \/ b.timestamp <= a.timestamp /\ EndOf(a) <= EndOf(b)

\* _split_event(e, dt): the one or two pieces of e
split_event(e, dt) ==
    IF e.timestamp < dt /\ dt < EndOf(e)
    THEN << [e EXCEPT !.duration = dt - e.timestamp],
            [e EXCEPT !.timestamp = dt, !.duration = EndOf(e) - dt] >>
    ELSE << e >>

\* list.insert(k, x)
InsertAt(seq, k, x) == SubSeq(seq, 1, k - 1) \o <<x>> \o SubSeq(seq, k, Len(seq))

\* the while loop of union_no_overlap and the two appended tails
RECURSIVE UnionLoop(_, _, _, _, _)
UnionLoop(events1, events2, e1_i, e2_i, events_union) ==
    IF e1_i > Len(events1) \/ e2_i > Len(events2)
    THEN events_union \o SubSeq(events1, e1_i, Len(events1)) \o SubSeq(events2, e2_i, Len(events2))
    ELSE LET e1 == events1[e1_i]
             e2 == events2[e2_i]
         IN  IF Intersects(e1, e2)
             THEN IF e1.timestamp <= e2.timestamp
                  THEN LET sp == split_event(e2, EndOf(e1))
                       IN  IF Len(sp) = 2
                           THEN UnionLoop(events1, [events2 EXCEPT ![e2_i] = sp[2]],
                                          e1_i + 1, e2_i, Append(events_union, e1))
                           ELSE UnionLoop(events1, events2, e1_i + 1, e2_i + 1,
                                          Append(events_union, e1))
                  ELSE LET sp == split_event(e2, e1.timestamp)
                       IN  IF Len(sp) = 2
                           THEN UnionLoop(events1, InsertAt(events2, e2_i + 1, sp[2]),
                                          e1_i, e2_i + 1, Append(events_union, sp[1]))
                           ELSE UnionLoop(events1, events2, e1_i, e2_i + 1,
                                          Append(events_union, sp[1]))
             ELSE IF e1.timestamp <= e2.timestamp
                  THEN UnionLoop(events1, events2, e1_i + 1, e2_i, Append(events_union, e1))
                  ELSE UnionLoop(events1, events2, e1_i, e2_i + 1, Append(events_union, e2))

\* aw_transform.union_no_overlap: the first list has precedence
union_no_overlap(events1, events2) == UnionLoop(events1, events2, 1, 1, <<>>)

\* the order in which client.get_buckets() lists the buckets
BucketOrder ==
    << <<"aw-watcher-", "window", "_", "h">>,
       <<"aw-watcher-", "vscode", "_", "h">>,
       <<"aw-watcher-", "afk", "_", "h">> >>

BucketIds == {BucketOrder[i] : i \in 1..Len(BucketOrder)}

\* the loop of get_recent_activities over the buckets still to visit; `down`
\* are the buckets whose get_events call raises; acc.none is all_events is None
RECURSIVE GatherLoop(_, _, _, _, _)
GatherLoop(order, bks, rs, down, acc) ==
    IF order = <<>> THEN [raised |-> FALSE, failed |-> {}, none |-> acc.none, events |-> acc.events]
    ELSE LET bucket_id == Head(order)
         IN  IF bucket_id \notin DOMAIN bks \/ Skipped(bucket_id)
             THEN GatherLoop(Tail(order), bks, rs, down, acc)
             ELSE IF bucket_id \in down
             THEN [raised |-> TRUE, failed |-> {bucket_id}, none |-> acc.none, events |-> acc.events]
             ELSE LET events == process_events(rs, bks[bucket_id], bucket_id)
                  IN  GatherLoop(Tail(order), bks, rs, down,
                                 [none |-> FALSE,
                                  events |-> IF acc.none THEN events
                                             ELSE union_no_overlap(acc.events, events)])

\* get_recent_activities: an exception of get_events leaves the method, and
\* aw_transform.flood(None) raises TypeError when no bucket was visited
get_recent_activities(bks, rs, down) ==
    LET g == GatherLoop(BucketOrder, bks, rs, down, [none |-> TRUE, events |-> <<>>])
    IN  IF g.raised THEN [raised |-> TRUE, failed |-> g.failed, events |-> <<>>]
        ELSE IF g.none THEN [raised |-> TRUE, failed |-> {}, events |-> <<>>]
        ELSE [raised |-> FALSE, failed |-> {}, events |-> flood(g.events)]

\* the sum of event.duration over the events of the given categories
RECURSIVE DurationOf(_, _)
DurationOf(events, categories) ==
    IF events = <<>> THEN 0
    ELSE (IF Head(events).category \in categories THEN Head(events).duration ELSE 0)
         + DurationOf(Tail(events), categories)

\* a plausible slip: the Unclear branch of the loop is missing
percentages_unclear_dropped(all_events, time_window) ==
    LET total == DurationOf(all_events, PkgActivityCategory)
    IN  IF all_events = <<>> \/ total <= 0 THEN NoPcts
        ELSE [proc |-> Frac(100 * DurationOf(all_events, {PkgPROCRASTINATING}), total),
              unclear |-> Frac(0, total),
              prod |-> Frac(100 * DurationOf(all_events, {PkgPRODUCTIVE}), total),
              active |-> Frac(100 * total, time_window)]

\* calculate_procrastination_percentage after get_recent_activities returned
percentages(all_events, time_window) ==
    LET total == DurationOf(all_events, PkgActivityCategory)
    IN  IF all_events = <<>> \/ total <= 0 THEN NoPcts
        ELSE [proc |-> Frac(100 * DurationOf(all_events, {PkgPROCRASTINATING}), total),
              unclear |-> Frac(100 * DurationOf(all_events, {PkgUNCLEAR}), total),
              prod |-> Frac(100 * DurationOf(all_events, {PkgPRODUCTIVE}), total),
              active |-> Frac(100 * total, time_window)]

\* thresholds.min_procrastination_percent and thresholds.min_active_percent of the settings file
procrastination_threshold == 30
active_threshold == 70

\* pct >= threshold for a fraction
AtLeast(f, threshold) == f.num >= threshold * f.den

(***************************************************************************)
(* Inputs of the poll cycle                                                *)
(***************************************************************************)

\* most events the tracking service holds over all buckets in the model
MaxEvents == 2

\* start and length of the events the service records, in ticks from the start of the window
TimestampInputs == {0, 1, 3, 13}
DurationInputs == {0, 1, 2, 500}

\* event payloads per bucket
DataCode == [app |-> <<"B", "c">>, title |-> <<"x">>]
DataFeed == [app |-> <<"c">>, url |-> <<"https://", "www.", "a", "b">>, title |-> <<"y">>]
DataEdit == [language |-> <<"p", "y">>, file |-> <<"f">>]
DataAfk == [status |-> <<"afk">>]

\* the events of a skipped bucket are never fetched: one representative event
TimestampsOf(bucket_id) == IF Skipped(bucket_id) THEN {0} ELSE TimestampInputs
DurationsOf(bucket_id) == IF Skipped(bucket_id) THEN {1} ELSE DurationInputs

DataInputs(bucket_id) ==
    IF bucket_id = BucketOrder[1] THEN {DataCode, DataFeed}
    ELSE IF bucket_id = BucketOrder[2] THEN {DataEdit}
    ELSE {DataAfk}

\* "activity_rules" of the settings file the application is started with
RulesNone == EmptyPkgRules
RulesMixed ==
    [EmptyPkgRules EXCEPT !["procrastination"]["urls"] = << <<"a", "b">> >>,
                          !["productive"]["apps"] = << <<"b", "c">> >>]
RuleConfigs == {RulesNone, RulesMixed}

RECURSIVE CountEvents(_, _)
CountEvents(bks, ids) ==
    IF ids = {} THEN 0
    ELSE LET b == CHOOSE x \in ids : TRUE
         IN  Len(bks[b]) + CountEvents(bks, ids \ {b})

\* main(): the categorizer and the event processor are built on an existing
\* settings file; the service lists no bucket yet
InitPollCycle ==
    /\ InitLegacy
    /\ InitSettings
    /\ \E cfg \in RuleConfigs :
          /\ settingsFile = [status |-> "ok", rules |-> cfg]
          /\ pkgRules = cfg
    /\ pkgQuery = NoQuery
    /\ pkgAnswer = "-"
    /\ pkgCall = NoCall
    /\ defaultRules = EmptyPkgRules
    /\ aliased = {}
    /\ InitPoll

\* a watcher creates its bucket in the tracking service
ServiceCreatesBucket(bucket_id) ==
    /\ pc = "idle"
    /\ bucket_id \notin DOMAIN buckets
    /\ buckets' = [b \in DOMAIN buckets \cup {bucket_id} |->
                      IF b = bucket_id THEN <<>> ELSE buckets[b]]
    /\ UNCHANGED <<pc, failed, timeline, outcome, pcts, alertRequested, alertVars,
                   legacyVars, pkgCatVars, settingsVars>>

\* a watcher's heartbeat adds an event to its bucket, not before the bucket's last event
ServiceRecordsEvent(bucket_id, timestamp, duration, data) ==
    /\ pc = "idle"
    /\ bucket_id \in DOMAIN buckets
    /\ CountEvents(buckets, DOMAIN buckets) < MaxEvents
    /\ timestamp + duration <= TimeWindow
    /\ buckets[bucket_id] # <<>> =>
          buckets[bucket_id][Len(buckets[bucket_id])].timestamp <= timestamp
    /\ buckets' = [buckets EXCEPT ![bucket_id] =
                      Append(@, [timestamp |-> timestamp, duration |-> duration, data |-> data])]
    /\ UNCHANGED <<pc, failed, timeline, outcome, pcts, alertRequested, alertVars,
                   legacyVars, pkgCatVars, settingsVars>>

\* a plausible slip: one threshold reached is enough
alert_needed_either(p) ==
    AtLeast(p.proc, procrastination_threshold) \/ AtLeast(p.active, active_threshold)

\* the condition of check_procrastination under which show_alert is called
alert_needed(p) ==
    AtLeast(p.proc, procrastination_threshold) /\ AtLeast(p.active, active_threshold)

\* check_procrastination: calculate_procrastination_percentage (load_rules,
\* get_recent_activities, the sums) and the alert decision
CheckProcrastination(down) ==
    /\ pc = "idle"
    /\ LET lr == load_rules(settingsFile, defaultRules)
           r == get_recent_activities(buckets, lr.rules, down)
           p == percentages(r.events, TimeWindow)
       IN  /\ pkgRules' = lr.rules
           /\ aliased' = lr.aliased
           /\ settingsFile' = lr.file
           /\ failed' = r.failed
           /\ IF r.raised
              THEN /\ outcome' = "raised"
                   /\ timeline' = <<>>
                   /\ pcts' = NoPcts
                   /\ alertRequested' = FALSE
              ELSE /\ outcome' = "ok"
                   /\ timeline' = r.events
                   /\ pcts' = p
                   /\ alertRequested' = alert_needed(p)
    /\ pc' = "done"
    /\ UNCHANGED <<buckets, defaultRules, pkgQuery, pkgAnswer, pkgCall, alertVars, legacyVars, settingsVars>>

\* the timer waits for the next check; the values of the last cycle are dropped
NextTick ==
    /\ pc = "done"
    /\ pc' = "idle"
    /\ failed' = {}
    /\ timeline' = <<>>
    /\ outcome' = "-"
    /\ pcts' = NoPcts
    /\ alertRequested' = FALSE
    /\ UNCHANGED <<buckets, alertVars, legacyVars, pkgCatVars, settingsVars>>

NextPollCycle ==
    \/ \E b \in BucketIds : ServiceCreatesBucket(b)
    \/ \E b \in BucketIds :
          \E ts \in TimestampsOf(b), d \in DurationsOf(b), data \in DataInputs(b) :
              ServiceRecordsEvent(b, ts, d, data)
    \/ \E down \in {{}} \cup {{b} : b \in DOMAIN buckets} : CheckProcrastination(down)
    \/ NextTick

SpecPoll == InitPollCycle /\ [][NextPollCycle]_vars

(***************************************************************************)
(* Properties of the poll cycle                                            *)
(***************************************************************************)

\* the poll cycle has ended
PollDone == pc = "done"

\* the poll cycle has ended and calculate_procrastination_percentage returned
Returned == pc = "done" /\ outcome = "ok"

\* the sum of the durations of the timeline events at the given positions
RECURSIVE SumAt(_)
SumAt(S) ==
    IF S = {} THEN 0
    ELSE LET i == CHOOSE x \in S : TRUE
         IN  timeline[i].duration + SumAt(S \ {i})

Positions == 1..Len(timeline)
PositionsOf(category) == {i \in Positions : timeline[i].category = category}

\* C4: no two events of the timeline returned by get_recent_activities overlap
\* in time: of any two distinct events one ends at or before the other starts.
C4_NoOverlap ==
    Returned =>
        \A i, j \in Positions :
            i # j => \/ EndOf(timeline[i]) <= timeline[j].timestamp
                     \/ EndOf(timeline[j]) <= timeline[i].timestamp

\* a percentage, as a fraction, lies in [0, 100]
InRange(f) == 0 <= f.num /\ f.num <= 100 * f.den

\* C5: every percentage calculate_procrastination_percentage returns lies in
\* [0, 100]; in particular the active percentage never exceeds 100.
C5_PercentagesInRange ==
    Returned =>
        InRange(pcts.proc) /\ InRange(pcts.unclear) /\ InRange(pcts.prod) /\ InRange(pcts.active)

\* C6: each event's duration is counted in exactly one of the three category
\* sums: when the summed duration of the timeline is positive each category
\* percentage is 100 * (duration of that category) / (summed duration) and the
\* three add up to 100; when it is zero all four percentages are 0.
C6_CategoriesSumTo100 ==
    Returned =>
        LET total == SumAt(Positions)
        IN  IF total > 0
            THEN /\ pcts.proc = Frac(100 * SumAt(PositionsOf(PkgPROCRASTINATING)), total)
                 /\ pcts.unclear = Frac(100 * SumAt(PositionsOf(PkgUNCLEAR)), total)
                 /\ pcts.prod = Frac(100 * SumAt(PositionsOf(PkgPRODUCTIVE)), total)
                 /\ pcts.proc.num + pcts.unclear.num + pcts.prod.num = 100 * total
            ELSE pcts = NoPcts

\* a cycle returned percentages for a timeline with both Procrastinating and
\* Productive time
C6_Witness ==
    /\ Returned
    /\ pcts.proc.num > 0
    /\ pcts.prod.num > 0
    /\ pcts.proc.num + pcts.unclear.num + pcts.prod.num = 100 * pcts.proc.den

\* C7: events shorter than the minimum-duration threshold add nothing to the
\* total duration or to any category sum, while they stay in the timeline.
C7_NoiseExcluded ==
    Returned =>
        LET kept == {i \in Positions : timeline[i].duration >= MinEventDuration}
            total == SumAt(kept)
            pctOf(category) == Frac(100 * SumAt(kept \cap PositionsOf(category)), total)
        IN  IF total > 0
            THEN /\ pcts.proc = pctOf(PkgPROCRASTINATING)
                 /\ pcts.unclear = pctOf(PkgUNCLEAR)
                 /\ pcts.prod = pctOf(PkgPRODUCTIVE)
                 /\ pcts.active = Frac(100 * total, TimeWindow)
            ELSE pcts = NoPcts

\* no bucket yields an event: every listed bucket is skipped or has no events
NoBucketYieldsEvents ==
    \A b \in DOMAIN buckets : Skipped(b) \/ buckets[b] = <<>>

\* C8: when no bucket yields any event (no bucket listed, or every listed
\* bucket skipped, included) the poll returns 0.0 four times and does not raise.
C8_NoEventsAllZero ==
    (PollDone /\ failed = {} /\ NoBucketYieldsEvents) => (outcome = "ok" /\ pcts = NoPcts)

\* C9: when get_events fails for a bucket the cycle still completes, with that
\* bucket contributing no events and the other buckets' events aggregated; the
\* failure does not leave check_procrastination.
C9_FetchFailureContained ==
    (PollDone /\ failed # {}) =>
        LET without == [b \in DOMAIN buckets |-> IF b \in failed THEN <<>> ELSE buckets[b]]
            expected == get_recent_activities(without, pkgRules, {})
        IN  /\ outcome = "ok"
            /\ timeline = expected.events
            /\ pcts = percentages(expected.events, TimeWindow)

\* the merged events of the last pass as flood receives them, sorted
Unflooded ==
    SortByTimestamp(GatherLoop(BucketOrder, buckets, pkgRules, {},
                               [none |-> TRUE, events |-> <<>>]).events)

\* the timeline is sorted ascending by timestamp
SortedTimeline ==
    \A i \in 1..(Len(timeline) - 1) : timeline[i].timestamp <= timeline[i + 1].timestamp

\* no two consecutive events leave a gap smaller than the flood threshold
NoSmallGap ==
    \A i \in 1..(Len(timeline) - 1) :
        LET gap == timeline[i + 1].timestamp - EndOf(timeline[i])
        IN  ~(0 < gap /\ gap < PulseTime)

\* gaps are closed by lengthening the earlier event: every event of the
\* timeline starts where an event of its data started before flooding
StartsKept ==
    \A i \in Positions :
        \E k \in 1..Len(Unflooded) :
            /\ Unflooded[k].timestamp = timeline[i].timestamp
            /\ Unflooded[k].data = timeline[i].data

\* two events of a list overlap
OverlapIn(events) ==
    \E i, j \in 1..Len(events) :
        /\ i # j
        /\ events[i].timestamp < EndOf(events[j])
        /\ events[j].timestamp < EndOf(events[i])

\* C19: the timeline get_recent_activities returns is sorted ascending by
\* timestamp and leaves no gap smaller than the flood threshold between
\* consecutive events; flooding closes a gap by lengthening the earlier event up
\* to the start of the next one, so no event's start moves, and it creates no
\* overlap.
C19_SortedAndFlooded ==
    Returned =>
        /\ SortedTimeline
        /\ NoSmallGap
        /\ StartsKept
        /\ OverlapIn(timeline) => OverlapIn(Unflooded)

\* C21: in each poll cycle show_alert is called if and only if procPct is at
\* least the procrastination threshold and activePct is at least the active
\* threshold; a cycle that an exception left calls nothing.
C21_AlertIffThresholds ==
    PollDone =>
        (alertRequested <=>
            /\ outcome = "ok"
            /\ pcts.proc.num * 1 >= procrastination_threshold * pcts.proc.den
            /\ pcts.active.num * 1 >= active_threshold * pcts.active.den)

\* a cycle that requested the alert although part of the active time was
\* productive
C21_Witness ==
    /\ Returned
    /\ alertRequested
    /\ pcts.prod.num > 0
    /\ pcts.proc.num * 1 >= procrastination_threshold * pcts.proc.den

\* the buckets get_recent_activities fetches events from
Contributing == {b \in DOMAIN buckets : ~Skipped(b)}

\* the events fetched from the only contributing bucket
Fetched == buckets[CHOOSE b \in Contributing : TRUE]

\* every two consecutive fetched events are separated by more than the flood
\* threshold, or overlap while carrying different data
GapsOrOverlaps ==
    \A i \in 1..(Len(Fetched) - 1) :
        LET gap == Fetched[i + 1].timestamp - EndOf(Fetched[i])
        IN  \/ gap > PulseTime
            \/ gap < 0 /\ Fetched[i].data # Fetched[i + 1].data

\* C25: when a single bucket contributes and its consecutive events are
\* separated by more than the flood threshold or overlap with different data,
\* get_recent_activities returns one processed event per fetched event, in
\* chronological order, each with the timestamp and the duration it was
\* fetched with.
C25_SingleBucketPassthrough ==
    (Returned /\ Cardinality(Contributing) = 1 /\ GapsOrOverlaps) =>
        /\ Len(timeline) = Len(Fetched)
        /\ SortedTimeline
        /\ \A i \in 1..Len(timeline) :
              /\ timeline[i].timestamp = Fetched[i].timestamp
              /\ timeline[i].duration = Fetched[i].duration

(***************************************************************************)
(* The rule store of the application: add_rule, remove_rule and the reload *)
(* of every pass, over the settings file                                   *)
(***************************************************************************)

\* value in lst
InList(lst, value) == \E i \in 1..Len(lst) : lst[i] = value

\* list.remove(value): the first occurrence goes, the order of the rest is kept
RemoveFirst(lst, value) ==
    LET k == CHOOSE i \in 1..Len(lst) : lst[i] = value /\ \A j \in 1..(i - 1) : lst[j] # value
    IN  SubSeq(lst, 1, k - 1) \o SubSeq(lst, k + 1, Len(lst))

\* whether packaged remove_rule removes: the rule type is a key of the
\* category's dict and the value is in its list
RemoveRuleRemoves(rs, category, rule_type, value) ==
    /\ rule_type \in DOMAIN rs[category_key(category)]
    /\ InList(rs[category_key(category)][rule_type], value)

\* a plausible slip: the value is removed from every list of the category
pkg_remove_rule_every_type(rs, category, rule_type, value) ==
    IF RemoveRuleRemoves(rs, category, rule_type, value)
    THEN [rs EXCEPT ![category_key(category)] =
             [t \in DOMAIN @ |-> IF InList(@[t], value) THEN RemoveFirst(@[t], value) ELSE @[t]]]
    ELSE rs

\* the rule dict after packaged remove_rule
pkg_remove_rule(rs, category, rule_type, value) ==
    IF RemoveRuleRemoves(rs, category, rule_type, value)
    THEN [rs EXCEPT ![category_key(category)][rule_type] = RemoveFirst(@, value)]
    ELSE rs

\* the dimension keys handed to add_rule and remove_rule: two keys of the rule
\* dict and one that is not a key
StoreRuleTypeInputs == {"apps", "urls", "sites"}

\* the values handed to add_rule and remove_rule
StorePatternInputs == { <<"b">>, <<"A", "b">> }

\* the events the window watcher has recorded
StoreBuckets ==
    [b \in {BucketOrder[1]} |->
        << [timestamp |-> 0, duration |-> 2, data |-> DataCode],
           [timestamp |-> 13, duration |-> 4, data |-> DataFeed] >>]

\* main() on a machine with no settings file yet: the file is written with
\* the defaults and self.rules is read back from it
InitStore ==
    /\ InitLegacy
    /\ InitSettings
    /\ InitPkgCat
    /\ buckets = StoreBuckets
    /\ pc = "idle"
    /\ failed = {}
    /\ timeline = << >>
    /\ outcome = "-"
    /\ pcts = NoPcts
    /\ alertRequested = FALSE
    /\ InitAlert

\* between two timer ticks, no call in progress
StoreIdle == pc = "idle" /\ pkgCall.op = "-"

\* remove_rule, with save_rules when a value was removed
PkgRemoveRule(category, rule_type, value) ==
    /\ pkgRules' = pkg_remove_rule(pkgRules, category, rule_type, value)
    /\ IF RemoveRuleRemoves(pkgRules, category, rule_type, value)
       THEN /\ defaultRules' =
                  IF <<category_key(category), rule_type>> \in aliased
                  THEN [defaultRules EXCEPT ![category_key(category)][rule_type] =
                           RemoveFirst(@, value)]
                  ELSE defaultRules
            /\ settingsFile' = [status |-> "ok", rules |-> pkgRules']
       ELSE UNCHANGED <<defaultRules, settingsFile>>
    /\ pkgCall' = [op |-> "remove_rule", category |-> category, rule_type |-> rule_type,
                   value |-> value, before |-> pkgRules, fileBefore |-> settingsFile,
                   raised |-> FALSE]
    /\ UNCHANGED <<pkgQuery, pkgAnswer, aliased, legacyVars, pollVars, settingsVars>>

\* the caller of remove_rule goes on
PkgReturnFromCall ==
    /\ pkgCall.op # "-"
    /\ pkgCall' = NoCall
    /\ UNCHANGED <<pkgRules, pkgQuery, pkgAnswer, settingsFile, defaultRules, aliased,
                   legacyVars, pollVars, settingsVars>>

\* ActivityCategorizer.load_rules called on its own
PkgLoadRules ==
    LET lr == load_rules(settingsFile, defaultRules)
    IN  /\ pkgRules' = lr.rules
        /\ aliased' = lr.aliased
        /\ settingsFile' = lr.file
        /\ UNCHANGED <<pkgQuery, pkgAnswer, pkgCall, defaultRules, legacyVars, pollVars, settingsVars>>

\* the user or another program deletes the settings file
EnvDeleteFile ==
    /\ settingsFile.status = "ok"
    /\ settingsFile' = [status |-> "missing", rules |-> EmptyPkgRules]
    /\ UNCHANGED <<pkgRules, pkgQuery, pkgAnswer, pkgCall, defaultRules, aliased,
                   legacyVars, pollVars, settingsVars>>

\* the settings file is left with text that is not JSON and cannot be fixed
EnvCorruptFile ==
    /\ settingsFile.status = "ok"
    /\ settingsFile' = [status |-> "corrupt", rules |-> EmptyPkgRules]
    /\ UNCHANGED <<pkgRules, pkgQuery, pkgAnswer, pkgCall, defaultRules, aliased,
                   legacyVars, pollVars, settingsVars>>

NextStore ==
    \/ StoreIdle /\ \E c \in PkgActivityCategory, t \in StoreRuleTypeInputs, v \in StorePatternInputs :
                        PkgAddRule(c, t, v)
    \/ StoreIdle /\ \E c \in PkgActivityCategory, t \in StoreRuleTypeInputs, v \in StorePatternInputs :
                        PkgRemoveRule(c, t, v)
    \/ PkgReturnFromCall
    \/ StoreIdle /\ PkgLoadRules
    \/ StoreIdle /\ EnvDeleteFile
    \/ StoreIdle /\ EnvCorruptFile
    \/ StoreIdle /\ CheckProcrastination({})
    \/ NextTick

SpecStore == InitStore /\ [][NextStore]_vars

(***************************************************************************)
(* Properties of the rule store                                            *)
(***************************************************************************)

\* a remove_rule call has just returned
Removed == pkgCall.op = "remove_rule"

\* the bucket <<category key, dimension key>> a remove_rule call names
NamedBucket == <<category_key(pkgCall.category), pkgCall.rule_type>>

\* the named bucket exists and held the pattern when remove_rule was called
WasPresent ==
    /\ pkgCall.rule_type \in RuleTypeKeys
    /\ InList(pkgCall.before[NamedBucket[1]][NamedBucket[2]], pkgCall.value)

C18_ReloadAppliesRules ==
    [][(pc = "idle" /\ pc' = "done") =>
          /\ \A i \in 1..Len(timeline') :
                timeline'[i].category =
                    pkg_categorize_activity(pkgRules', timeline'[i].app, timeline'[i].url,
                                            timeline'[i].title)
          /\ settingsFile.status = "ok" => pkgRules' = pkgRules]_vars

\* a pass has read the rules from the settings file and an event of it got its
\* category from a rule: the rule store started empty, so the rule was added
\* by add_rule since
C18_Witness ==
    /\ Returned
    /\ aliased = {}
    /\ RuleCount(pkgRules) > 0
    /\ \E i \in Positions : timeline[i].category # PkgUNCLEAR

\* C28: DEFAULT_SETTINGS is never modified: whatever loads, add_rule and
\* remove_rule calls were made, its "activity_rules" still hold empty lists,
\* so a fallback to the defaults yields empty rule lists.
C28_DefaultsNeverModified == defaultRules = EmptyPkgRules

\* C22: remove_rule (and add_rule, which tests the key the same way) called
\* with a dimension key that is none of apps, urls, titles ends with an error
\* raised to its caller.
C22_InvalidKeySurfacesError ==
    (Removed /\ pkgCall.rule_type \notin RuleTypeKeys) => pkgCall.raised

(***************************************************************************)
(* Rule reload of the rule-object categorizer: activity_categorizer.py     *)
(* load_rules over activity_rules.json                                     *)
(***************************************************************************)

\* the categories dict of load_rules, in its iteration order
LoadCategories == << <<"procrastination", PROCRASTINATING>>, <<"productive", PRODUCTIVE>> >>

\* the rule_types dict of load_rules, in its iteration order
LoadRuleTypes == << <<"titles", TITLE>>, <<"urls", URL>>, <<"apps", APP>> >>

\* a JSON object with the given members
JsonObject(members) == [dict |-> TRUE, items |-> members]

\* a JSON value that is not an object (a number, a list, a string)
JsonOther == [dict |-> FALSE, items |-> << >>]

\* d.get(key, default) on a JSON object
JsonGet(d, key, default) == IF key \in DOMAIN d.items THEN d.items[key] ELSE default

\* not pattern.strip(): the string is empty or holds only whitespace
IsBlank(pattern) == \A i \in 1..Len(pattern) : pattern[i] = " "

\* isinstance(pattern, str): JSON null stands for the entries that are no strings
IsStr(pattern) == pattern # NoneStr

\* the entry passes both checks of the loop body
WellFormed(pattern) == IsStr(pattern) /\ ~IsBlank(pattern)

\* a plausible slip: the first malformed entry ends the loop over the list (break for continue)
RECURSIVE LoadPatternsUntilMalformed(_, _, _, _)
LoadPatternsUntilMalformed(rs, patterns, category, rule_type) ==
    IF patterns = <<>> \/ ~WellFormed(Head(patterns)) THEN rs
    ELSE LoadPatternsUntilMalformed(add_rule(rs, Head(patterns), category, rule_type),
                                    Tail(patterns), category, rule_type)

\* for pattern in patterns: skip what is not a string or is blank, add_rule the rest
RECURSIVE LoadPatterns(_, _, _, _)
LoadPatterns(rs, patterns, category, rule_type) ==
    IF patterns = <<>> THEN rs
    ELSE LoadPatterns(IF WellFormed(Head(patterns))
                      THEN add_rule(rs, Head(patterns), category, rule_type)
                      ELSE rs,
                      Tail(patterns), category, rule_type)

\* for rule_type_name, rule_type_enum in rule_types.items(), from the ti-th on;
\* category_data.get raises AttributeError when the value is not an object
RECURSIVE LoadTypesLoop(_, _, _, _)
LoadTypesLoop(rs, category_data, category, ti) ==
    IF ti > Len(LoadRuleTypes) THEN [rules |-> rs, raised |-> FALSE]
    ELSE IF ~category_data.dict THEN [rules |-> rs, raised |-> TRUE]
    ELSE LoadTypesLoop(LoadPatterns(rs, JsonGet(category_data, LoadRuleTypes[ti][1], <<>>),
                                    category, LoadRuleTypes[ti][2]),
                       category_data, category, ti + 1)

\* for category_name, category_enum in categories.items(), from the ci-th on;
\* rules_data.get raises AttributeError when the document is not an object
RECURSIVE LoadCategoriesLoop(_, _, _)
LoadCategoriesLoop(rs, rules_data, ci) ==
    IF ci > Len(LoadCategories) THEN [rules |-> rs, raised |-> FALSE]
    ELSE IF ~rules_data.dict THEN [rules |-> rs, raised |-> TRUE]
    ELSE LET r == LoadTypesLoop(rs, JsonGet(rules_data, LoadCategories[ci][1], JsonObject(<< >>)),
                                LoadCategories[ci][2], 1)
         IN  IF r.raised THEN r ELSE LoadCategoriesLoop(r.rules, rules_data, ci + 1)

\* load_rules of the rule-object categorizer: an early return when the file is
\* missing or is no JSON, otherwise self.rules.clear() and the nested loops
legacy_load_rules(rs, file) ==
    IF file.status \in {"missing", "corrupt"} THEN [rules |-> rs, raised |-> FALSE]
    ELSE LoadCategoriesLoop(<<>>, file.doc, 1)

\* activity_rules.json is no JSON
CorruptFile == [status |-> "corrupt"]

\* a rules file with well-formed patterns only
FileClean ==
    [status |-> "ok",
     doc |-> JsonObject([c \in {"procrastination"} |->
                 JsonObject([t \in {"titles"} |-> << <<"b">> >>])])]

\* a rules file with entries that are no strings, empty or blank, at the
\* start, in the middle and at the end of a list
FileMalformedEntries ==
    [status |-> "ok",
     doc |-> JsonObject([c \in {"procrastination", "productive"} |->
                 IF c = "procrastination"
                 THEN JsonObject([t \in {"urls"} |-> << NoneStr, <<"A", "b">>, <<" ">> >>])
                 ELSE JsonObject([t \in {"titles", "apps"} |->
                          IF t = "titles" THEN << <<>>, <<"b", "c">> >>
                          ELSE << <<"c">>, <<" ", " ">>, <<"B">> >>])])]

\* a rules file whose "productive" member is not an object
FileBadCategory ==
    [status |-> "ok",
     doc |-> JsonObject([c \in {"procrastination", "productive"} |->
                 IF c = "procrastination"
                 THEN JsonObject([t \in {"apps"} |-> << <<"b", "c">> >>])
                 ELSE JsonOther])]

\* a rules file whose document is not an object
FileNotObject == [status |-> "ok", doc |-> JsonOther]

RulesFileInputs ==
    {MissingFile, CorruptFile, FileClean, FileMalformedEntries, FileBadCategory, FileNotObject}

\* the patterns, categories and dimensions handed to add_rule between reloads
LoadPatternInputs == { <<"b">>, <<"C">> }
LoadCategoryInputs == {PROCRASTINATING, PRODUCTIVE}
LoadRuleTypeInputs == {URL, APP}

InitLoad ==
    /\ InitLegacy
    /\ InitSettings
    /\ InitPkgCat
    /\ InitPoll

\* no load_rules call has just ended
LoadIdle == ~loadReturn.done

\* the rules file is written, replaced or deleted
WriteRulesFile(file) ==
    /\ file # rulesFile
    /\ rulesFile' = file
    /\ UNCHANGED <<rules, query, answer, loadReturn, pkgCatVars, pollVars, settingsVars>>

\* load_rules
LoadRules ==
    LET r == legacy_load_rules(rules, rulesFile)
    IN  /\ rules' = r.rules
        /\ loadReturn' = [done |-> TRUE, raised |-> r.raised, before |-> rules]
        /\ UNCHANGED <<query, answer, rulesFile, pkgCatVars, pollVars, settingsVars>>

\* the caller of load_rules goes on, or handles the exception
ReturnFromLoad ==
    /\ loadReturn.done
    /\ loadReturn' = NoLoad
    /\ UNCHANGED <<rules, query, answer, rulesFile, pkgCatVars, pollVars, settingsVars>>

NextLoad ==
    \/ LoadIdle /\ \E p \in LoadPatternInputs, c \in LoadCategoryInputs, t \in LoadRuleTypeInputs :
                       AddRule(p, c, t)
    \/ LoadIdle /\ \E file \in RulesFileInputs : WriteRulesFile(file)
    \/ LoadIdle /\ LoadRules
    \/ ReturnFromLoad

SpecLoad == InitLoad /\ [][NextLoad]_vars

(***************************************************************************)
(* Properties of the rule reload                                           *)
(***************************************************************************)

\* a load_rules call has just ended
Loaded == loadReturn.done

\* the rules file parses and has the shape load_rules walks: an object whose
\* category members are objects
WellShaped(file) ==
    /\ file.status = "ok"
    /\ file.doc.dict
    /\ \A c \in DOMAIN file.doc.items : file.doc.items[c].dict

\* the entries <<category, dimension, pattern>> of a well-shaped rules file
\* that are nonblank strings
FileEntries(file) ==
    UNION { UNION { { <<LoadCategories[ci][2], LoadRuleTypes[ti][2], lst[k]>> :
                          k \in {n \in 1..Len(lst) : WellFormed(lst[n])} }
                    : lst \in { JsonGet(JsonGet(file.doc, LoadCategories[ci][1], JsonObject(<< >>)),
                                        LoadRuleTypes[ti][1], <<>>) } }
            : ci \in 1..Len(LoadCategories), ti \in 1..Len(LoadRuleTypes) }

\* the rule set of the configuration: one rule per well-formed entry
ConfigurationRules(file) ==
    { [pattern |-> lower(e[3]), category |-> e[1], rule_type |-> e[2]] : e \in FileEntries(file) }

StoredRules == { rules[i] : i \in 1..Len(rules) }

\* C15: a reload either replaces the whole rule set by the rules of the
\* configuration or leaves it as it was; a reload that fails leaves it as it
\* was, never partly loaded and never cleared without being refilled.
C15_ReloadAllOrNothing ==
    Loaded =>
        IF loadReturn.raised
        THEN rules = loadReturn.before
        ELSE \/ rules = loadReturn.before
             \/ WellShaped(rulesFile) /\ StoredRules = ConfigurationRules(rulesFile)

\* C16: when the rules file is missing or cannot be parsed, load_rules does
\* not raise and leaves the categorizer with an empty rule set, whatever rules
\* it held before.
C16_FallbackToEmpty ==
    (Loaded /\ rulesFile.status \in {"missing", "corrupt"}) =>
        (~loadReturn.raised /\ rules = <<>>)

\* C17: from a rules file of the expected shape load_rules loads every
\* pattern that is a nonblank string, with its category and dimension, and
\* skips every entry that is no string, empty or blank, wherever it stands.
C17_MalformedEntriesSkipped ==
    (Loaded /\ WellShaped(rulesFile)) =>
        /\ ~loadReturn.raised
        /\ \A e \in FileEntries(rulesFile) :
              [pattern |-> lower(e[3]), category |-> e[1], rule_type |-> e[2]] \in StoredRules
        /\ \A r \in StoredRules : IsStr(r.pattern) /\ ~IsBlank(r.pattern)

\* a file with malformed entries before, between and after well-formed ones
\* has been loaded, and its four well-formed patterns are the rule set
C17_Witness ==
    /\ Loaded
    /\ rulesFile = FileMalformedEntries
    /\ Len(rules) = 4
    /\ StoredRules = ConfigurationRules(rulesFile)

(***************************************************************************)
(* The alert window:                                                       *)
(* src/aw_watcher_procrastination/notification_window.py                   *)
(* Time is counted in minutes.                                             *)
(***************************************************************************)

\* DEFAULT_SETTINGS["delay_showing_popup_again_seconds"] = 300, in minutes
delay_showing_popup_again == 5

\* the latest time the clock reaches in the model
MaxClock == 8

\* the break lengths the user picks, in minutes
BreakMinuteInputs == {1, 5}

\* what the user does with the welcome-back dialog: closes it, says ready (or
\* opens the chat), or asks for more break time and picks a length
DialogChoices ==
    { [button |-> "dismiss", minutes |-> 0], [button |-> "ready", minutes |-> 0] }
    \cup { [button |-> "more", minutes |-> m] : m \in BreakMinuteInputs }

\* _close_window: _last_shown = datetime.now(), hide()
close_window(w, now) == [w EXCEPT !.last_shown = <<now>>, !.visible = FALSE]

\* _take_break: the break state is set, then _close_window
take_break(w, now, minutes) ==
    close_window([w EXCEPT !.break_duration_minutes = <<minutes>>,
                           !.break_end_time = <<now + minutes>>], now)

\* a plausible slip: the break length is left behind when the break ends
clear_break_end_only(w) == [w EXCEPT !.break_end_time = None]

\* the first statements of _show_welcome_back_dialog: the break state is cleared
clear_break_state(w) == [w EXCEPT !.break_end_time = None, !.break_duration_minutes = None]

\* _show_welcome_back_dialog: the break state is cleared, then the button the
\* user presses runs _close_window or, through the break dialog, _take_break
show_welcome_back_dialog(w, now, choice) ==
    LET cleared == clear_break_state(w)
    IN  IF choice.button = "ready" THEN close_window(cleared, now)
        ELSE IF choice.button = "more" THEN take_break(cleared, now, choice.minutes)
        ELSE cleared

\* a plausible slip: the test of the time since _last_shown is missing
show_alert_without_delay(w, now, choice) ==
    IF w.break_end_time # None
    THEN IF now >= w.break_end_time[1] THEN show_welcome_back_dialog(w, now, choice) ELSE w
    ELSE [w EXCEPT !.last_shown = <<now>>, !.visible = TRUE]

\* show_alert: the break branch, the delay test, then _last_shown = now and show()
show_alert(w, now, choice) ==
    IF w.break_end_time # None
    THEN IF now >= w.break_end_time[1] THEN show_welcome_back_dialog(w, now, choice) ELSE w
    ELSE IF w.last_shown # None /\ now - w.last_shown[1] < delay_showing_popup_again
    THEN w
    ELSE [w EXCEPT !.last_shown = <<now>>, !.visible = TRUE]

InitAlertWindow ==
    /\ InitLegacy
    /\ InitSettings
    /\ InitPkgCat
    /\ InitPoll

\* no show_alert call has just returned
AlertIdle == ~alertCall.done

\* a minute passes
Tick ==
    /\ clock < MaxClock
    /\ clock' = clock + 1
    /\ UNCHANGED <<window, alertCall, buckets, pc, failed, timeline, outcome, pcts,
                   alertRequested, legacyVars, pkgCatVars, settingsVars>>

\* check_procrastination calls show_alert; the call record keeps whether the
\* welcome-back dialog was opened and the window state it was opened on
ShowAlert(choice) ==
    /\ window' = show_alert(window, clock, choice)
    /\ LET welcome == window.break_end_time # None /\ clock >= window.break_end_time[1]
       IN  alertCall' = [done |-> TRUE, now |-> clock, before |-> window,
                         welcome |-> welcome,
                         atDialog |-> IF welcome THEN clear_break_state(window) ELSE window]
    /\ UNCHANGED <<clock, buckets, pc, failed, timeline, outcome, pcts, alertRequested,
                   legacyVars, pkgCatVars, settingsVars>>

\* show_alert has returned to the timer slot
ReturnFromAlert ==
    /\ alertCall.done
    /\ alertCall' = NoAlertCall
    /\ UNCHANGED <<clock, window, buckets, pc, failed, timeline, outcome, pcts, alertRequested,
                   legacyVars, pkgCatVars, settingsVars>>

\* the user closes the alert window: closeEvent -> _close_window
UserClosesWindow ==
    /\ window.visible
    /\ window' = close_window(window, clock)
    /\ UNCHANGED <<clock, alertCall, buckets, pc, failed, timeline, outcome, pcts,
                   alertRequested, legacyVars, pkgCatVars, settingsVars>>

\* the user picks a break length in the break dialog of the alert window
UserTakesBreak(minutes) ==
    /\ window.visible
    /\ window' = take_break(window, clock, minutes)
    /\ UNCHANGED <<clock, alertCall, buckets, pc, failed, timeline, outcome, pcts,
                   alertRequested, legacyVars, pkgCatVars, settingsVars>>

NextAlertWindow ==
    \/ AlertIdle /\ Tick
    \/ AlertIdle /\ \E choice \in DialogChoices : ShowAlert(choice)
    \/ ReturnFromAlert
    \/ AlertIdle /\ UserClosesWindow
    \/ AlertIdle /\ \E m \in BreakMinuteInputs : UserTakesBreak(m)

SpecAlert == InitAlertWindow /\ [][NextAlertWindow]_vars

(***************************************************************************)
(* Properties of the alert window                                          *)
(***************************************************************************)

\* a show_alert call has just returned
Alerted == alertCall.done

\* the call was made less than the delay after _last_shown
InsideDelay ==
    /\ alertCall.before.last_shown # None
    /\ alertCall.now - alertCall.before.last_shown[1] < delay_showing_popup_again

\* what the claim says of a call: inside the delay the window and _last_shown
\* are as before, otherwise the window is shown and _last_shown is the time of
\* the call
DelayRespected ==
    IF InsideDelay
    THEN /\ window.visible = alertCall.before.visible
         /\ window.last_shown = alertCall.before.last_shown
    ELSE /\ window.visible
         /\ window.last_shown = <<alertCall.now>>

\* C20 as stated: every show_alert call inside the delay leaves the window
\* hidden and _last_shown unchanged, and every call after the delay shows the
\* window and sets _last_shown to the current time.
C20_AlertDelay == Alerted => DelayRespected

\* C20 as amended: show_alert never turns the hidden window visible inside the
\* delay, and while no break is pending a call inside the delay leaves the
\* window and _last_shown as they were and a call after the delay shows the
\* window and sets _last_shown to the current time.
C20_AlertDelayOutsideBreak ==
    Alerted =>
        /\ (window.visible /\ ~alertCall.before.visible) => ~InsideDelay
        /\ alertCall.before.break_end_time = None => DelayRespected

\* with no break pending, a call made inside the delay found the window
\* hidden and left it hidden
C20_Witness ==
    /\ Alerted
    /\ alertCall.before.break_end_time = None
    /\ InsideDelay
    /\ ~alertCall.before.visible
    /\ ~window.visible

\* a break is pending: _break_end_time is set
OnBreak(w) == w.break_end_time # None

\* C27: while a break is pending the alert window is hidden; a show_alert
\* call made before the break end leaves the window, _last_shown and the
\* break state as they were; a call made at or after the break end opens the
\* welcome-back dialog on a window whose _break_end_time and
\* _break_duration_minutes are both cleared, and does not show the alert;
\* the two break fields are always set or cleared together.
C27_BreakKeepsWindowHidden ==
    /\ OnBreak(window) => ~window.visible
    /\ (window.break_end_time = None) <=> (window.break_duration_minutes = None)
    /\ (Alerted /\ OnBreak(alertCall.before)) =>
          IF alertCall.now < alertCall.before.break_end_time[1]
          THEN /\ window = alertCall.before
               /\ ~alertCall.welcome
          ELSE /\ alertCall.welcome
               /\ alertCall.atDialog.break_end_time = None
               /\ alertCall.atDialog.break_duration_minutes = None
               /\ ~window.visible

\* a break was taken, show_alert was called at or after its end and the user
\* left the welcome-back dialog: the break state is cleared and the alert
\* window is still hidden
C27_Witness ==
    /\ Alerted
    /\ OnBreak(alertCall.before)
    /\ alertCall.now >= alertCall.before.break_end_time[1]
    /\ alertCall.welcome
    /\ ~OnBreak(window)
    /\ ~window.visible

(***************************************************************************)
(* Event normalization on its own: EventProcessor._process_events over the *)
(* events fetched from one bucket                                          *)
(***************************************************************************)

\* the buckets whose events are normalized: a window watcher and two editors
NormBucketIds ==
    { <<"aw-watcher-", "window", "_", "h">>,
      <<"aw-watcher-", "vscode", "_", "h">>,
      <<"aw-watcher-", "cursor", "_", "h">> }

\* an editor heartbeat that names no file, and a payload with a url
DataEditNoFile == [language |-> <<"p", "y">>, url |-> <<"a", "b">>, title |-> <<"x">>]

\* event payloads of any of these buckets
NormDataInputs == {DataCode, DataFeed, DataEdit, DataEditNoFile}

NormTimestampInputs == {0, 13}
NormDurationInputs == {2}

\* the bucket the events are fetched from
NormBucket == CHOOSE b \in DOMAIN buckets : TRUE

\* the service lists one bucket, still empty; the rules are those of the
\* settings file
InitNormalize ==
    /\ InitLegacy
    /\ InitSettings
    /\ \E cfg \in RuleConfigs :
          /\ settingsFile = [status |-> "ok", rules |-> cfg]
          /\ pkgRules = cfg
    /\ pkgQuery = NoQuery
    /\ pkgAnswer = "-"
    /\ pkgCall = NoCall
    /\ defaultRules = EmptyPkgRules
    /\ aliased = {}
    /\ \E b \in NormBucketIds : buckets = [x \in {b} |-> << >>]
    /\ pc = "idle"
    /\ failed = {}
    /\ timeline = << >>
    /\ outcome = "-"
    /\ pcts = NoPcts
    /\ alertRequested = FALSE
    /\ InitAlert

\* client.get_events: the list of Event objects built from the service's answer
FetchEvents ==
    /\ pc = "idle"
    /\ pc' = "fetched"
    /\ timeline' = buckets[NormBucket]
    /\ UNCHANGED <<buckets, failed, outcome, pcts, alertRequested, alertVars,
                   legacyVars, pkgCatVars, settingsVars>>

\* _process_events: the loop sets attributes on the Event objects of the list
\* it was given and returns that list
ProcessEvents ==
    /\ pc = "fetched"
    /\ pc' = "processed"
    /\ timeline' = process_events(pkgRules, timeline, NormBucket)
    /\ UNCHANGED <<buckets, failed, outcome, pcts, alertRequested, alertVars,
                   legacyVars, pkgCatVars, settingsVars>>

\* the caller drops the list
DropEvents ==
    /\ pc = "processed"
    /\ pc' = "idle"
    /\ timeline' = << >>
    /\ UNCHANGED <<buckets, failed, outcome, pcts, alertRequested, alertVars,
                   legacyVars, pkgCatVars, settingsVars>>

NextNormalize ==
    \/ \E ts \in NormTimestampInputs, d \in NormDurationInputs, data \in NormDataInputs :
          ServiceRecordsEvent(NormBucket, ts, d, data)
    \/ FetchEvents
    \/ ProcessEvents
    \/ DropEvents

SpecNormalize == InitNormalize /\ [][NextNormalize]_vars

(***************************************************************************)
(* Properties of event normalization                                       *)
(***************************************************************************)

\* _process_events has just returned
Processed == pc = "processed"

\* the raw event the service holds for the i-th processed event
RawOf(i) == buckets[NormBucket][i]

\* C23: for an editor bucket (vscode, cursor) app is the short bucket label,
\* title is the language field and url is the file field when the event has
\* one, otherwise the raw url field; for any other bucket app, url and title
\* are the raw fields, a missing field being the empty string.
C23_NormalizedFields ==
    Processed =>
        \A i \in 1..Len(timeline) :
            LET data == RawOf(i).data
                ev == timeline[i]
            IN  IF IsIde(ev.bucket_id_short)
                THEN /\ ev.app = bucket_id_short(NormBucket)
                     /\ ev.title = DataGet(data, "language")
                     /\ ev.url = IF "file" \in DOMAIN data THEN data["file"]
                                  ELSE DataGet(data, "url")
                ELSE /\ ev.app = DataGet(data, "app")
                     /\ ev.url = DataGet(data, "url")
                     /\ ev.title = DataGet(data, "title")

\* C24: _process_events leaves the timestamp, the duration and the data
\* payload of every event it is given as they were, and returns as many
\* events as it was given.
C24_RawEventKept ==
    [][(pc = "fetched" /\ pc' = "processed") =>
          /\ Len(timeline') = Len(timeline)
          /\ \A i \in 1..Len(timeline) :
                /\ timeline'[i].timestamp = timeline[i].timestamp
                /\ timeline'[i].duration = timeline[i].duration
                /\ timeline'[i].data = timeline[i].data]_vars

\* an event was normalized whose url lost its scheme and host prefix, while
\* its payload still carries the url as recorded
C24_Witness ==
    /\ Processed
    /\ \E i \in 1..Len(timeline) :
          /\ "url" \in DOMAIN timeline[i].data
          /\ timeline[i].url # timeline[i].data["url"]
          /\ timeline[i].data = RawOf(i).data

(***************************************************************************)
(* Settings documents and the merge of the defaults: src/settings.py       *)
(* (load_settings, update_dict_recursively) and                            *)
(* src/aw_watcher_procrastination/settings.py (Settings.load,              *)
(* Settings._update_recursively).                                          *)
(* A document is a function from key paths to values; the value "{}"       *)
(* marks a dict, whose members are the paths one key longer.               *)
(***************************************************************************)

\* DEFAULT_SETTINGS of src/aw_watcher_procrastination/settings.py, each key
\* path with its value, in the order dict iteration visits them
DEFAULT_SETTINGS ==
    << << <<"bucket_ids_to_skip">>, "[aw-watcher-afk_, aw-watcher-input_]" >>,
       << <<"thresholds">>, "{}" >>,
       << <<"thresholds", "procrastination_threshold">>, "30.0" >>,
       << <<"thresholds", "active_threshold">>, "70.0" >>,
       << <<"check_interval">>, "300" >>,
       << <<"notification_timeout">>, "30" >>,
       << <<"delay_showing_popup_again_seconds">>, "300" >>,
       << <<"window_sizes">>, "{}" >>,
       << <<"window_sizes", "notification">>, "{}" >>,
       << <<"window_sizes", "notification", "default">>, "{}" >>,
       << <<"window_sizes", "notification", "default", "width">>, "600" >>,
       << <<"window_sizes", "notification", "default", "height">>, "500" >>,
       << <<"window_sizes", "notification", "expanded">>, "{}" >>,
       << <<"window_sizes", "notification", "expanded", "width">>, "600" >>,
       << <<"window_sizes", "notification", "expanded", "height">>, "700" >>,
       << <<"window_sizes", "browser">>, "{}" >>,
       << <<"window_sizes", "browser", "width">>, "1200" >>,
       << <<"window_sizes", "browser", "height">>, "800" >>,
       << <<"activity_rules">>, "{}" >>,
       << <<"activity_rules", "procrastination">>, "{}" >>,
       << <<"activity_rules", "procrastination", "titles">>, "[]" >>,
       << <<"activity_rules", "procrastination", "apps">>, "[]" >>,
       << <<"activity_rules", "procrastination", "urls">>, "[]" >>,
       << <<"activity_rules", "productive">>, "{}" >>,
       << <<"activity_rules", "productive", "titles">>, "[]" >>,
       << <<"activity_rules", "productive", "apps">>, "[]" >>,
       << <<"activity_rules", "productive", "urls">>, "[]" >> >>

\* not the key the packaged defaults have and those of src/settings.py lack
InLegacyDefaults(entry) == entry[1] # <<"delay_showing_popup_again_seconds">>

\* DEFAULT_SETTINGS of src/settings.py
LEGACY_DEFAULT_SETTINGS == SelectSeq(DEFAULT_SETTINGS, InLegacyDefaults)

\* the document of a list of entries
DocOf(entries) ==
    [q \in {entries[i][1] : i \in 1..Len(entries)} |->
        LET i == CHOOSE k \in 1..Len(entries) : entries[k][1] = q IN entries[i][2]]

\* path p is path q or leads to it
IsPrefix(p, q) == Len(p) <= Len(q) /\ SubSeq(q, 1, Len(p)) = p

\* the entries of the members of the dict at path p, in iteration order
MembersOf(entries, p) ==
    LET member(entry) == Len(entry[1]) = Len(p) + 1 /\ IsPrefix(p, entry[1])
    IN  SelectSeq(entries, member)

\* target[key] = value: the value at path q of the source, with all it holds
WithValueAt(target, source, q) ==
    [r \in DOMAIN target \cup {x \in DOMAIN source : IsPrefix(q, x)} |->
        IF r \in DOMAIN target THEN target[r] ELSE source[r]]

\* src/settings.py update_dict_recursively(target, source) on the dicts at
\* path p; `todo` are the source items still to visit:
\*     target[key], updated = update_dict_recursively(target[key], value)
RECURSIVE update_dict_recursively(_, _, _, _, _)
update_dict_recursively(target, entries, p, todo, updated) ==
    IF todo = << >> THEN [target |-> target, updated |-> updated]
    ELSE LET q == Head(todo)[1]
             value == Head(todo)[2]
         IN  IF q \notin DOMAIN target
             THEN update_dict_recursively(WithValueAt(target, DocOf(entries), q), entries, p,
                                          Tail(todo), TRUE)
             ELSE IF value = "{}" /\ target[q] = "{}"
             THEN LET sub == update_dict_recursively(target, entries, q,
                                                     MembersOf(entries, q), FALSE)
                  IN  update_dict_recursively(sub.target, entries, p, Tail(todo), sub.updated)
             ELSE update_dict_recursively(target, entries, p, Tail(todo), updated)

\* Settings._update_recursively(target, source) on the dicts at path p:
\*     _, sub_updated = Settings._update_recursively(target[key], value)
\*     updated = updated or sub_updated
RECURSIVE update_recursively(_, _, _, _, _)
update_recursively(target, entries, p, todo, updated) ==
    IF todo = << >> THEN [target |-> target, updated |-> updated]
    ELSE LET q == Head(todo)[1]
             value == Head(todo)[2]
         IN  IF q \notin DOMAIN target
             THEN update_recursively(WithValueAt(target, DocOf(entries), q), entries, p,
                                     Tail(todo), TRUE)
             ELSE IF value = "{}" /\ target[q] = "{}"
             THEN LET sub == update_recursively(target, entries, q,
                                                MembersOf(entries, q), FALSE)
                  IN  update_recursively(sub.target, entries, p, Tail(todo),
                                         updated \/ sub.updated)
             ELSE update_recursively(target, entries, p, Tail(todo), updated)

\* the key paths a user takes out of settings.json, and the ones edited
RemovedPathInputs ==
    { <<"bucket_ids_to_skip">>, <<"thresholds", "active_threshold">>, <<"check_interval">>,
      <<"window_sizes", "notification", "default", "width">>, <<"window_sizes", "browser">>,
      <<"activity_rules">> }
EditedPathInputs == { <<"check_interval">>, <<"test_key">> }

\* the value a user writes at an edited key
EditedValue == "600"

SettingsIdle == settingsCall.op = "-"

\* the user deletes a key of settings.json, with all it holds
EnvRemovesKey(path) ==
    /\ SettingsIdle
    /\ settingsDoc.status = "ok"
    /\ path \in DOMAIN settingsDoc.doc
    /\ settingsDoc' = [settingsDoc EXCEPT !.doc =
                          [r \in {x \in DOMAIN @ : ~IsPrefix(path, x)} |-> @[r]]]
    /\ UNCHANGED <<settingsCall, legacyVars, pkgCatVars, pollVars>>

\* the user sets a top-level key of settings.json
EnvSetsKey(path) ==
    /\ SettingsIdle
    /\ settingsDoc.status = "ok"
    /\ settingsDoc' = [settingsDoc EXCEPT !.doc =
                          [r \in DOMAIN @ \cup {path} |-> IF r = path THEN EditedValue ELSE @[r]]]
    /\ UNCHANGED <<settingsCall, legacyVars, pkgCatVars, pollVars>>

\* src/settings.py load_settings: a missing file is written with the
\* defaults; an existing one is merged with them and saved when the merge
\* reports an update
LoadSettings ==
    /\ SettingsIdle
    /\ LET defaults == DocOf(LEGACY_DEFAULT_SETTINGS)
           merged == update_dict_recursively(settingsDoc.doc, LEGACY_DEFAULT_SETTINGS, << >>,
                                             MembersOf(LEGACY_DEFAULT_SETTINGS, << >>), FALSE)
       IN  IF settingsDoc.status = "missing"
           THEN /\ settingsDoc' = [status |-> "ok", doc |-> defaults]
                /\ settingsCall' = [op |-> "load_settings", before |-> settingsDoc,
                                    defaults |-> defaults, settings |-> defaults,
                                    updated |-> FALSE, saved |-> TRUE]
           ELSE /\ settingsDoc' = IF merged.updated
                                  THEN [status |-> "ok", doc |-> merged.target]
                                  ELSE settingsDoc
                /\ settingsCall' = [op |-> "load_settings", before |-> settingsDoc,
                                    defaults |-> defaults, settings |-> merged.target,
                                    updated |-> merged.updated, saved |-> merged.updated]
    /\ UNCHANGED <<legacyVars, pkgCatVars, pollVars>>

\* Settings.load of the packaged module, on a file that exists and parses or
\* on no file
SettingsLoad ==
    /\ SettingsIdle
    /\ LET defaults == DocOf(DEFAULT_SETTINGS)
           merged == update_recursively(settingsDoc.doc, DEFAULT_SETTINGS, << >>,
                                        MembersOf(DEFAULT_SETTINGS, << >>), FALSE)
       IN  IF settingsDoc.status = "missing"
           THEN /\ settingsDoc' = [status |-> "ok", doc |-> defaults]
                /\ settingsCall' = [op |-> "Settings.load", before |-> settingsDoc,
                                    defaults |-> defaults, settings |-> defaults,
                                    updated |-> FALSE, saved |-> TRUE]
           ELSE /\ settingsDoc' = IF merged.updated
                                  THEN [status |-> "ok", doc |-> merged.target]
                                  ELSE settingsDoc
                /\ settingsCall' = [op |-> "Settings.load", before |-> settingsDoc,
                                    defaults |-> defaults, settings |-> merged.target,
                                    updated |-> merged.updated, saved |-> merged.updated]
    /\ UNCHANGED <<legacyVars, pkgCatVars, pollVars>>

\* the caller takes the settings
ReturnFromSettings ==
    /\ ~SettingsIdle
    /\ settingsCall' = NoSettingsCall
    /\ UNCHANGED <<settingsDoc, legacyVars, pkgCatVars, pollVars>>

InitSettingsFile ==
    /\ InitLegacy
    /\ InitSettings
    /\ InitPkgCat
    /\ InitPoll

NextSettings ==
    \/ \E path \in RemovedPathInputs : EnvRemovesKey(path)
    \/ \E path \in EditedPathInputs : EnvSetsKey(path)
    \/ LoadSettings
    \/ SettingsLoad
    \/ ReturnFromSettings

SpecSettings == InitSettingsFile /\ [][NextSettings]_vars

(***************************************************************************)
(* Properties of the settings merge                                        *)
(***************************************************************************)

\* a load of an existing settings file has just returned
MergedExisting == settingsCall.op # "-" /\ settingsCall.before.status = "ok"

\* the key paths of the defaults the file lacked
MissingKeys == DOMAIN settingsCall.defaults \ DOMAIN settingsCall.before.doc

\* C26: a load of an existing file returns settings that hold every key path
\* of the defaults, with the default value where the file lacked it, and
\* every key path of the file with the file's value; the merge reports
\* updated = True exactly when the file lacked a key of the defaults at some
\* depth, and the file is rewritten exactly then.
C26_MergeAddsMissingKeys ==
    MergedExisting =>
        /\ DOMAIN settingsCall.settings =
               DOMAIN settingsCall.before.doc \cup DOMAIN settingsCall.defaults
        /\ \A q \in DOMAIN settingsCall.before.doc :
               settingsCall.settings[q] = settingsCall.before.doc[q]
        /\ \A q \in MissingKeys : settingsCall.settings[q] = settingsCall.defaults[q]
        /\ settingsCall.updated <=> MissingKeys # {}
        /\ settingsCall.saved <=> MissingKeys # {}

(***************************************************************************)
(* The stand-alone monitor: procrastination_monitor.py, which categorizes  *)
(* with the rule-object categorizer of activity_categorizer.py             *)
(***************************************************************************)

\* the loop body of get_recent_activities: the event with the attributes it
\* gains; an editor event takes app from the bucket, title from language and
\* url from file
monitor_process_event(rs, event, bucket_id) ==
    LET short == bucket_id_short(bucket_id)
        ide == IsIde(short)
        app == IF ide THEN short ELSE DataGet(event.data, "app")
        title == IF ide THEN DataGet(event.data, "language") ELSE DataGet(event.data, "title")
        url == IF ide THEN DataGet(event.data, "file") ELSE DataGet(event.data, "url")
    IN  [timestamp |-> event.timestamp, duration |-> event.duration, data |-> event.data,
         bucket_id_short |-> short, app |-> app, url |-> url, title |-> title,
         category |-> categorize_activity(rs, app, url, title)]

\* get_recent_activities over the events of one bucket: flood, then the loop
monitor_get_recent_activities(rs, events, bucket_id) ==
    LET flooded == flood(events)
    IN  [i \in 1..Len(flooded) |-> monitor_process_event(rs, flooded[i], bucket_id)]

\* the category the loop of calculate_procrastination_percentage counts an
\* event under: an editor event takes app from the bucket and title from
\* language, and url stays event.data.get("url", "")
counted_category(rs, event) ==
    LET ide == IsIde(event.bucket_id_short)
        app == IF ide THEN event.bucket_id_short ELSE DataGet(event.data, "app")
        title == IF ide THEN DataGet(event.data, "language") ELSE DataGet(event.data, "title")
        url == DataGet(event.data, "url")
    IN  categorize_activity(rs, app, url, title)

\* the sum of event.duration over the events counted under the given categories
RECURSIVE CountedDuration(_, _)
CountedDuration(events, categories) ==
    IF events = << >> THEN 0
    ELSE (IF Head(events).counted \in categories THEN Head(events).duration ELSE 0)
         + CountedDuration(Tail(events), categories)

\* the tuple calculate_procrastination_percentage returns (it has no active share)
monitor_percentages(events) ==
    LET total == CountedDuration(events, ActivityCategory)
    IN  IF events = << >> \/ total = 0 THEN NoPcts
        ELSE [proc |-> Frac(100 * CountedDuration(events, {PROCRASTINATING}), total),
              unclear |-> Frac(100 * CountedDuration(events, {UNCLEAR}), total),
              prod |-> Frac(100 * CountedDuration(events, {PRODUCTIVE}), total),
              active |-> Zero]

\* the patterns of the rules setup_categorizer adds
MonitorPatternInputs == { <<"f">>, <<"p", "y">> }

\* the events of the monitored bucket
MonitorTimestampInputs == {0, 13}
MonitorDurationInputs == {2}

\* main(): setup_categorizer has not added a rule yet, the service lists one
\* bucket
InitMonitor ==
    /\ InitLegacy
    /\ InitSettings
    /\ InitPkgCat
    /\ \E b \in NormBucketIds : buckets = [x \in {b} |-> << >>]
    /\ pc = "idle"
    /\ failed = {}
    /\ timeline = << >>
    /\ outcome = "-"
    /\ pcts = NoPcts
    /\ alertRequested = FALSE
    /\ InitAlert

\* calculate_procrastination_percentage: get_recent_activities, then the loop
\* that categorizes every event again and sums its duration; each event is
\* kept with the category it was counted under
MonitorCalculate ==
    /\ pc = "idle"
    /\ LET all_events == monitor_get_recent_activities(rules, buckets[NormBucket], NormBucket)
           counted == [i \in 1..Len(all_events) |->
                          [timestamp |-> all_events[i].timestamp,
                           duration |-> all_events[i].duration,
                           data |-> all_events[i].data,
                           bucket_id_short |-> all_events[i].bucket_id_short,
                           app |-> all_events[i].app,
                           url |-> all_events[i].url,
                           title |-> all_events[i].title,
                           category |-> all_events[i].category,
                           counted |-> counted_category(rules, all_events[i])]]
       IN  /\ timeline' = counted
           /\ pcts' = monitor_percentages(counted)
    /\ pc' = "done"
    /\ outcome' = "ok"
    /\ UNCHANGED <<buckets, failed, alertRequested, alertVars, legacyVars, pkgCatVars,
                   settingsVars>>

NextMonitor ==
    \/ pc = "idle" /\ \E pattern \in MonitorPatternInputs, c \in ActivityCategory, t \in RuleType :
                          AddRule(pattern, c, t)
    \/ \E ts \in MonitorTimestampInputs, d \in MonitorDurationInputs, data \in NormDataInputs :
          ServiceRecordsEvent(NormBucket, ts, d, data)
    \/ MonitorCalculate
    \/ NextTick

SpecMonitor == InitMonitor /\ [][NextMonitor]_vars

(***************************************************************************)
(* Properties of the stand-alone monitor                                   *)
(***************************************************************************)

\* C29: every event is counted by calculate_procrastination_percentage under
\* the category get_recent_activities assigned to it (event.category),
\* whatever the rules and whatever the bucket, editor buckets included.
C29_CountedAsDisplayed ==
    PollDone => \A i \in 1..Len(timeline) : timeline[i].counted = timeline[i].category

(***************************************************************************)
(* The category editor: CategoryEditor.update_table and _mark_selected of  *)
(* src/aw_watcher_procrastination/notification_window.py.                  *)
(* " ", " - ", " (" and ")" are tokens of the activity text.               *)
(***************************************************************************)

\* ActivityCategorizer.status_to_emoji
status_to_emoji(category) ==
    IF category = PkgPRODUCTIVE THEN "ok-mark"
    ELSE IF category = PkgPROCRASTINATING THEN "cross-mark"
    ELSE "question-mark"

\* the text of the Activity column of update_table for an event
activity_item_text(event) ==
    <<status_to_emoji(event.category), " ">>
    \o event.app
    \o (IF event.url # << >> THEN <<" - ">> \o event.url ELSE << >>)
    \o (IF event.title # << >> THEN <<" (">> \o event.title \o <<")">> ELSE << >>)

\* sep in text
HasToken(text, sep) == \E i \in 1..Len(text) : text[i] = sep

\* text.split(sep, 1) when sep is in text: the parts before and after its
\* first occurrence
SplitOnce(text, sep) ==
    LET k == CHOOSE i \in 1..Len(text) : text[i] = sep /\ \A j \in 1..(i - 1) : text[j] # sep
    IN  << SubSeq(text, 1, k - 1), SubSeq(text, k + 1, Len(text)) >>

\* text.split(sep)[0]
BeforeToken(text, sep) == IF HasToken(text, sep) THEN SplitOnce(text, sep)[1] ELSE text

\* str.strip()
RECURSIVE Strip(_)
Strip(text) ==
    IF text # << >> /\ Head(text) = " " THEN Strip(Tail(text))
    ELSE IF text # << >> /\ text[Len(text)] = " " THEN Strip(SubSeq(text, 1, Len(text) - 1))
    ELSE text

\* the add_rule calls _mark_selected makes for the text of one row, as
\* <<dimension key, value>> pairs in call order
rules_for_row(item_text) ==
    LET text == IF HasToken(item_text, " ")
                   /\ SplitOnce(item_text, " ")[1] \in
                          { <<"ok-mark">>, <<"cross-mark">>, <<"question-mark">> }
                THEN SplitOnce(item_text, " ")[2]
                ELSE item_text
    IN  IF item_text = << >> THEN << >>
        ELSE IF HasToken(text, " - ")
        THEN LET app == SplitOnce(text, " - ")[1]
                 rest == SplitOnce(text, " - ")[2]
                 url == BeforeToken(rest, " (")
             IN  << <<"apps", Strip(app)>>, <<"urls", Strip(url)>> >>
        ELSE << <<"apps", Strip(BeforeToken(text, " ("))>> >>

\* the add_rule calls of _mark_selected for one category, in call order, each
\* with its save_rules: the rule dict, the defaults and whether the settings
\* file was written
RECURSIVE add_rules(_, _, _)
add_rules(st, category, adds) ==
    IF adds = << >> THEN st
    ELSE LET rule_type == Head(adds)[1]
             value == Head(adds)[2]
             appends == AddRuleAppends(st.rules, category, rule_type, value)
         IN  add_rules(
                 [rules |-> pkg_add_rule(st.rules, category, rule_type, value),
                  defaults |-> IF appends /\ <<category_key(category), rule_type>> \in aliased
                               THEN [st.defaults EXCEPT ![category_key(category)][rule_type] =
                                        Append(@, value)]
                               ELSE st.defaults,
                  saved |-> st.saved \/ appends],
                 category, Tail(adds))

\* the rows of a selection, in the order the loop visits them
RECURSIVE RowsInOrder(_)
RowsInOrder(rows) ==
    IF rows = {} THEN << >>
    ELSE LET r == CHOOSE x \in rows : \A y \in rows : x <= y
         IN  <<r>> \o RowsInOrder(rows \ {r})

\* the loop of _mark_selected over the selected rows of the table
RECURSIVE mark_rows(_, _, _, _)
mark_rows(st, category, rows, table) ==
    IF rows = << >> THEN st
    ELSE mark_rows(add_rules(st, category, rules_for_row(activity_item_text(table[Head(rows)]))),
                   category, Tail(rows), table)

\* the rows update_table fills: get_recent_activities, sorted by timestamp;
\* with no events the table keeps its rows
table_rows(bks, rs, shown) ==
    LET r == get_recent_activities(bks, rs, {})
    IN  IF r.raised \/ r.events = << >> THEN shown ELSE SortByTimestamp(r.events)

\* a window title that holds " - "
DataDoc == [app |-> <<"c">>, title |-> <<"x", " - ", "y">>]

\* the events the window watcher has recorded
EditorBuckets ==
    [b \in {BucketOrder[1]} |->
        << [timestamp |-> 0, duration |-> 2, data |-> DataCode],
           [timestamp |-> 13, duration |-> 4, data |-> DataFeed],
           [timestamp |-> 30, duration |-> 4, data |-> DataDoc] >>]

\* the buttons of the editor: Mark Productive, Mark Procrastinating
MarkCategoryInputs == {PkgPRODUCTIVE, PkgPROCRASTINATING}

\* the application on an existing settings file, the editor hidden
InitEditor ==
    /\ InitLegacy
    /\ InitSettings
    /\ \E cfg \in RuleConfigs :
          /\ settingsFile = [status |-> "ok", rules |-> cfg]
          /\ pkgRules = cfg
    /\ pkgQuery = NoQuery
    /\ pkgAnswer = "-"
    /\ pkgCall = NoCall
    /\ defaultRules = EmptyPkgRules
    /\ aliased = {}
    /\ buckets = EditorBuckets
    /\ pc = "idle"
    /\ failed = {}
    /\ timeline = << >>
    /\ outcome = "-"
    /\ pcts = NoPcts
    /\ alertRequested = FALSE
    /\ InitAlert

\* the editor is opened: update_table
UpdateTable ==
    /\ pc = "idle"
    /\ pc' = "table"
    /\ timeline' = table_rows(buckets, pkgRules, timeline)
    /\ UNCHANGED <<buckets, failed, outcome, pcts, alertRequested, alertVars,
                   legacyVars, pkgCatVars, settingsVars>>

\* _mark_selected on a selection of rows: the add_rule calls, then update_table
MarkSelected(category, rows) ==
    /\ pc = "table"
    /\ pkgCall.op = "-"
    /\ rows # {}
    /\ rows \subseteq 1..Len(timeline)
    /\ LET st == mark_rows([rules |-> pkgRules, defaults |-> defaultRules, saved |-> FALSE],
                           category, RowsInOrder(rows), timeline)
       IN  /\ pkgRules' = st.rules
           /\ defaultRules' = st.defaults
           /\ settingsFile' = IF st.saved THEN [status |-> "ok", rules |-> st.rules]
                              ELSE settingsFile
           /\ timeline' = table_rows(buckets, st.rules, timeline)
    /\ pkgCall' = [op |-> "mark_selected", category |-> category, rows |-> rows,
                   table |-> timeline]
    /\ UNCHANGED <<pkgQuery, pkgAnswer, aliased, buckets, pc, failed, outcome, pcts,
                   alertRequested, alertVars, legacyVars, settingsVars>>

\* the editor is hidden
HideEditor ==
    /\ pc = "table"
    /\ pkgCall.op = "-"
    /\ pc' = "idle"
    /\ timeline' = << >>
    /\ UNCHANGED <<buckets, failed, outcome, pcts, alertRequested, alertVars,
                   legacyVars, pkgCatVars, settingsVars>>

NextEditor ==
    \/ UpdateTable
    \/ \E c \in MarkCategoryInputs, rows \in SUBSET (1..Len(timeline)) : MarkSelected(c, rows)
    \/ PkgReturnFromCall
    \/ HideEditor

SpecEditor == InitEditor /\ [][NextEditor]_vars

(***************************************************************************)
(* Properties of the category editor                                       *)
(***************************************************************************)

\* _mark_selected has just returned
Marked == pkgCall.op = "mark_selected"

\* C30: after _mark_selected(category) every activity of a selected row is
\* given that category by categorize_activity under the rules now in force,
\* also when it matched a rule of the other category before.
C30_MarkedCategoryApplies ==
    Marked =>
        \A row \in pkgCall.rows :
            LET event == pkgCall.table[row]
            IN  pkg_categorize_activity(pkgRules, event.app, event.url, event.title)
                    = pkgCall.category

====
